---- MODULE Spec2Model ----
(***************************************************************************)
(* Model of the zcash-warp wallet core: the Sapling warp synchronizer      *)
(* (src/warp/sync/sapling.rs) and the fee manager (src/pay/fee.rs).        *)
(*                                                                         *)
(* Hashes are symbolic and collision free: the hash of a subtree of height *)
(* d is the sequence of its 2^d leaf commitments (0 stands for the empty   *)
(* leaf), so combining two nodes is concatenation.  Option<T> is a         *)
(* sequence of length at most one for scalars and the empty sequence for   *)
(* an absent hash.  Vectors are 0-indexed in the source and 1-indexed      *)
(* here; At(v, i) reads source index i.                                    *)
(***************************************************************************)
EXTENDS Integers, Sequences, FiniteSets, TLC

VARIABLES
    start,        \* Synchronizer.start
    position,     \* Synchronizer.position
    tree_state,   \* Synchronizer.tree_state (Edge)
    notes,        \* Synchronizer.notes
    spends,       \* Synchronizer.spends
    blocks,       \* argument of the add call in progress / last completed
    prev,         \* the Synchronizer as it was when that call was made
    pc,           \* "ready" | "running" | "panicked"
    result,       \* outcome of the last add: "none" | "ok" | "panic"
    num_inputs,   \* FeeManager.num_inputs
    num_outputs,  \* FeeManager.num_outputs
    ret,          \* value returned by the last FeeManager call
    call,         \* the last FeeManager call: [op, pool, n, outcome, borrow]
    overflow_checks, \* the build aborts on integer overflow (debug) or wraps
    deltas,       \* the returned deltas a planner has added up: [sum, borrows], worth sum + borrows * 2^64
    utxos,        \* TransparentSync.utxos
    rtxs,         \* TransparentSync.txs
    tx_updates,   \* TransparentSync.tx_updates
    tcall,        \* the last process_txs call: [batch, prev, result]
    tchain,       \* the transparent chain: [height, unspent, block, pending, ntx]
    bc_height,    \* the height get_last_height returns (chain tip at lightwalletd)
    checkpoints,  \* Store: the heights of the stored block headers
    config,       \* CONFIG: [confirmations]
    cmd,          \* the last CLI command: [name, arg, result, builder, outputs, batches, before]
    chain,        \* the chain source: [height, leaves, unspent]
    sync_loop,    \* the loop of Command::Sync: [pc, arg, checks, first, calls, result]
    bridge_call   \* one pass of the bridge loop body: [pc, position, depth, be, len, after, writes]

syncVars == <<start, position, tree_state, notes, spends, blocks, prev, pc, result, chain>>
feeVars == <<num_inputs, num_outputs, ret, call, overflow_checks, deltas>>
transVars == <<utxos, rtxs, tx_updates, tcall, tchain>>
cliVars == <<bc_height, checkpoints, config, cmd>>
bridgeVars == <<bridge_call>>
loopVars == <<sync_loop>>
vars == <<start, position, tree_state, notes, spends, blocks, prev, pc, result,
          num_inputs, num_outputs, ret, call, overflow_checks, deltas, chain,
          utxos, rtxs, tx_updates, tcall, tchain,
          bc_height, checkpoints, config, cmd, bridge_call, sync_loop>>

(***************************************************************************)
(* Bounds of the model.  The chain source serves two families of batches:  *)
(* one rich in outputs and bridges (Spec), one rich in accounts and spend  *)
(* descriptions (SpendSpec).                                               *)
(***************************************************************************)
\* Depth of the commitment tree (the program uses 32, scaled down here).
MERKLE_DEPTH == 3
\* Spec: leaves and blocks the chain grows to
MaxPosition == 4
MaxHeight == 2
\* Spec: blocks in a batch, transactions in a block, outputs in a
\* transaction, leaves under a bridge, decryptable outputs in a batch
MaxBlocks == 2
MaxTx == 2
MaxOutputs == 2
MaxBridgeLen == 2
MaxHits == 2
\* PadSpec: leaves the chain grows to, blocks and decryptable outputs in a batch
PadMaxPosition == 5
PadMaxBlocks == 1
PadMaxHits == 1
\* SpendSpec: the same limits, and the spend descriptions in a batch
SpendMaxPosition == 3
SpendMaxHeight == 2
SpendMaxBlocks == 2
SpendMaxTx == 2
SpendMaxOutputs == 1
SpendMaxBridgeLen == 1
SpendMaxHits == 2
MaxSpends == 1
\* Largest value of a FeeManager counter.
MaxCalls == 2
MaxTHeight == 2
MaxTTx == 2
MaxChainTxs == 3
MaxVins == 1
MaxVouts == 2
\* records (UTXOs and updates) held when a last process_txs call on a slice starts
MaxSliceRecords == 3
StartCounts == {0, 1, 254, 255}

(***************************************************************************)
(* Generic helpers.                                                        *)
(***************************************************************************)
At(v, i) == v[i + 1]

Max(a, b) == IF a >= b THEN a ELSE b

RECURSIVE Pow2(_)
Pow2(n) == IF n = 0 THEN 1 ELSE 2 * Pow2(n - 1)

\* x >> d on unsigned integers
Shr(x, d) == x \div Pow2(d)

\* i32 division by two, truncating toward zero
HalfTrunc(x) == IF x >= 0 THEN x \div 2 ELSE -((-x) \div 2)

RECURSIVE SumSeq(_)
SumSeq(s) == IF s = <<>> THEN 0 ELSE Head(s) + SumSeq(Tail(s))

RECURSIVE Flatten(_)
Flatten(ss) == IF ss = <<>> THEN <<>> ELSE Head(ss) \o Flatten(Tail(ss))

None == <<>>
Some(x) == <<x>>

\* Below, `The({body : x \in {v}})` is `let x = v in body` with v computed once.
The(S) == CHOOSE r \in S : TRUE

(***************************************************************************)
(* Hasher, Edge and Witness (crate::warp; their source is not part of the  *)
(* files at hand, they follow the design document).                        *)
(***************************************************************************)
\* commitment of the leaf at absolute position p (every commitment on the
\* chain is distinct and differs from the empty leaf 0)
Cmu(p) == <<p + 1>>

\* Hasher::empty at depth d
EmptyHash(d) == [i \in 1..Pow2(d) |-> 0]

\* Hasher::combine(depth, left, right)
Combine(d, l, r) == l \o r

OrEmpty(h, d) == IF h = None THEN EmptyHash(d) ELSE h

\* one pair of parallel_combine_opt: None operands are the empty subtree,
\* a pair of None stays None
CombineOpt(d, l, r) ==
    IF l = None /\ r = None THEN None
    ELSE Combine(d, OrEmpty(l, d), OrEmpty(r, d))

\* Hasher::parallel_combine_opt(depth, nodes, pairs)
ParallelCombineOpt(d, nodes, pairs) ==
    [i \in 1..pairs |-> CombineOpt(d, nodes[2 * i - 1], nodes[2 * i])]

\* Edge::default / the ommers of Witness::default
EmptyEdge == [d \in 1..MERKLE_DEPTH |-> None]

\* hash of the partly filled subtree of height d at the right edge of the
\* tree described by edge
RECURSIVE EdgeHash(_, _)
EdgeHash(edge, d) ==
    IF d = 0 THEN EmptyHash(0)
    ELSE IF At(edge, d - 1) # None
         THEN Combine(d - 1, At(edge, d - 1), EdgeHash(edge, d - 1))
         ELSE Combine(d - 1, EdgeHash(edge, d - 1), EmptyHash(d - 1))

\* Edge::to_auth_path
ToAuthPath(edge) == [i \in 1..MERKLE_DEPTH |-> EdgeHash(edge, i - 1)]

\* Witness::root(auth_path, hasher): fold the ommers from the leaf up.  The
\* lowest missing right sibling is the edge's partial subtree; above it the
\* note's ancestor holds the edge, so a missing right sibling is empty.  A
\* missing left sibling is read as the empty subtree.
EdgeUsedBelow(w, d) ==
    \E k \in 0..(d - 1) : At(w.ommers, k) = None /\ Shr(w.position, k) % 2 = 0

RECURSIVE WitnessHash(_, _, _)
WitnessHash(w, path, d) ==
    IF d = 0 THEN w.value
    ELSE LET below == WitnessHash(w, path, d - 1)
             om == At(w.ommers, d - 1)
         IN  IF Shr(w.position, d - 1) % 2 = 1
             THEN Combine(d - 1, OrEmpty(om, d - 1), below)
             ELSE Combine(d - 1, below,
                          IF om # None THEN om
                          ELSE IF EdgeUsedBelow(w, d - 1) THEN EmptyHash(d - 1)
                          ELSE At(path, d - 1))

WitnessRoot(w, path) == WitnessHash(w, path, MERKLE_DEPTH)

\* root of the commitment tree that holds the first n leaves of the chain
TreeRootAt(n) == [i \in 1..Pow2(MERKLE_DEPTH) |-> IF i <= n THEN i ELSE 0]

\* hash of the complete node i of level d of the chain's tree
TrueNode(d, i) == [k \in 1..Pow2(d) |-> i * Pow2(d) + k]

\* frontier of the tree that holds the first n leaves
TrueEdge(n) ==
    [i \in 1..MERKLE_DEPTH |->
        IF Shr(n, i - 1) % 2 = 1 THEN TrueNode(i - 1, Shr(n, i - 1) - 1) ELSE None]

(***************************************************************************)
(* Compact blocks as Synchronizer::add reads them.                         *)
(*   block  [height, vtx]                                                  *)
(*   tx     [hash, outputs, spends, sapling_bridge]                        *)
(*   output [cmu, owner, value]: owner and value stand for the ciphertext, *)
(*          owner 0 is an output no account of the wallet can decrypt      *)
(*   spend  [nf]                                                           *)
(*   bridge [len, levels], level [head, tail], each None or                *)
(*          Some([side, h]) with side "Left" or "Right"                    *)
(***************************************************************************)
\* accounts of account_infos
Accounts == {1, 2}

\* Note::nf(nk, position): one nullifier per viewing key and position
Nf(account, p) == <<account, p>>

\* a nullifier no note of the wallet has
ForeignNf == <<0, 0>>

BridgeLen(tx) ==
    IF tx.sapling_bridge = None THEN 0 ELSE tx.sapling_bridge[1].len

\* tx.outputs.len() + tx.sapling_bridge.map(|b| b.len).unwrap_or_default()
TxLeaves(tx) == Len(tx.outputs) + BridgeLen(tx)

BlockLeaves(cb) == SumSeq([j \in 1..Len(cb.vtx) |-> TxLeaves(cb.vtx[j])])

BatchLeaves(bs) == SumSeq([i \in 1..Len(bs) |-> BlockLeaves(bs[i])])

\* all transactions of the batch in block order, each with its block height
FlatTxs(bs) ==
    Flatten([i \in 1..Len(bs) |->
        [j \in 1..Len(bs[i].vtx) |->
            [height |-> bs[i].height, ivtx |-> j - 1, tx |-> bs[i].vtx[j]]]])

(***************************************************************************)
(* Trial decryption (crate::warp::try_sapling_decrypt): one ReceivedNote   *)
(* for every output an account of the wallet can decrypt.                  *)
(***************************************************************************)
DefaultWitness == [position |-> 0, value |-> None, ommers |-> EmptyEdge]

Decrypted(height, ivtx, vout, o) ==
    IF o.owner \in Accounts
    THEN <<[account |-> o.owner, height |-> height, ivtx |-> ivtx, vout |-> vout,
            value |-> o.value, position |-> 0, nf |-> ForeignNf, txid |-> <<0, 0>>,
            spent |-> None, witness |-> DefaultWitness]>>
    ELSE <<>>

\* the notes of the batch, in (block, transaction, output) order
DecryptAll(bs) ==
    LET txs == FlatTxs(bs)
    IN  Flatten([t \in 1..Len(txs) |->
            Flatten([k \in 1..Len(txs[t].tx.outputs) |->
                Decrypted(txs[t].height, txs[t].ivtx, k - 1, txs[t].tx.outputs[k])])])

\* the orders in which the channel can deliver n notes
Perms(n) ==
    {f \in [1..n -> 1..n] : \A i, j \in 1..n : i # j => f[i] # f[j]}

(***************************************************************************)
(* Synchronizer::add, lines 106-157: position, nullifier and txid of a     *)
(* received note.                                                          *)
(***************************************************************************)
\* index (from 0) of the first block whose height is the note's, or the
\* number of blocks when there is none: where the first loop breaks
RECURSIVE FirstAtHeight(_, _, _)
FirstAtHeight(bs, h, i) ==
    IF i >= Len(bs) THEN Len(bs)
    ELSE IF At(bs, i).height = h THEN i
    ELSE FirstAtHeight(bs, h, i + 1)

\* variant that leaves out the earlier blocks of the batch
NotePositionInBlock(self, bs, note) ==
    LET cb == At(bs, note.height - self.start - 1)
        ntx == IF note.ivtx < Len(cb.vtx) THEN note.ivtx ELSE Len(cb.vtx)
        inblock == SumSeq([j \in 1..ntx |-> TxLeaves(cb.vtx[j])])
    IN  self.position + inblock + note.vout

\* variant that leaves out the earlier transactions of the note's block
NotePositionBlockOnly(self, bs, note) ==
    LET nb == FirstAtHeight(bs, note.height, 0)
        before == SumSeq([i \in 1..nb |-> BlockLeaves(bs[i])])
    IN  self.position + before + note.vout

\* variant that lays a transaction's bridge leaves out before its outputs
NotePositionAfterBridge(self, bs, note) ==
    LET nb == FirstAtHeight(bs, note.height, 0)
        before == SumSeq([i \in 1..nb |-> BlockLeaves(bs[i])])
        cb == At(bs, note.height - self.start - 1)
        ntx == IF note.ivtx < Len(cb.vtx) THEN note.ivtx ELSE Len(cb.vtx)
        inblock == SumSeq([j \in 1..ntx |-> TxLeaves(cb.vtx[j])])
    IN  self.position + before + inblock + BridgeLen(At(cb.vtx, note.ivtx)) + note.vout

NotePosition(self, bs, note) ==
    LET nb == FirstAtHeight(bs, note.height, 0)
        before == SumSeq([i \in 1..nb |-> BlockLeaves(bs[i])])
        cb == At(bs, note.height - self.start - 1)
        ntx == IF note.ivtx < Len(cb.vtx) THEN note.ivtx ELSE Len(cb.vtx)
        inblock == SumSeq([j \in 1..ntx |-> TxLeaves(cb.vtx[j])])
    IN  self.position + before + inblock + note.vout

ReceiveNote(self, bs, note) ==
    LET pos == NotePosition(self, bs, note)
        cb == At(bs, note.height - self.start - 1)
    IN  [note EXCEPT !.position = pos,
                     !.nf = Nf(note.account, pos),
                     !.txid = At(cb.vtx, note.ivtx).hash]

(***************************************************************************)
(* Synchronizer::add, lines 159-174: the leaf range [s, e] of each bridge. *)
(***************************************************************************)
RECURSIVE BridgeExts(_, _)
BridgeExts(txs, p) ==
    IF txs = <<>> THEN <<>>
    ELSE LET tx == Head(txs).tx
             q == p + Len(tx.outputs)
         IN  IF tx.sapling_bridge = None
             THEN BridgeExts(Tail(txs), q)
             ELSE LET b == tx.sapling_bridge[1]
                  IN  <<[b |-> b, s |-> q, e |-> q + b.len - 1]>>
                      \o BridgeExts(Tail(txs), q + b.len)

\* lines 186-201: the level-0 nodes the batch adds, None under a bridge
TxCmxs(tx) ==
    [k \in 1..Len(tx.outputs) |-> tx.outputs[k].cmu]
    \o [k \in 1..BridgeLen(tx) |-> None]

BatchCmxs(bs) ==
    LET txs == FlatTxs(bs)
    IN  Flatten([t \in 1..Len(txs) |-> TxCmxs(txs[t].tx)])

(***************************************************************************)
(* Synchronizer::add, lines 176-279: the witness extension loop.           *)
(* The loop state is                                                       *)
(*   cmxs     the level vector                                             *)
(*   fresh    the notes received in this call (the local `notes`)          *)
(*   held     self.notes                                                   *)
(*   ts       self.tree_state                                              *)
(*   bridges  the BridgeExt list                                           *)
(*   panic    an unwrap of None or an index out of bounds has aborted add  *)
(*   wrapped  an unsigned subtraction went below zero                      *)
(***************************************************************************)
\* the mask 0xFFFE keeps the low 16 bits
PairWrap == 65536

\* (x & 0xFFFE) of the u32 x = off mod 2^32: 65536 divides 2^32
PairIndex(off) == LET m == off % PairWrap IN m - (m % 2)

InRange(v, i) == i >= 0 /\ i < Len(v)

\* variant: a node without a right sibling is paired with itself
NoteOmmerSelfPaired(cmxs, nidx) ==
    IF nidx % 2 = 0
    THEN IF nidx + 1 < Len(cmxs) THEN At(cmxs, nidx + 1)
         ELSE IF InRange(cmxs, nidx) THEN At(cmxs, nidx) ELSE None
    ELSE At(cmxs, nidx - 1)

\* lines 203-221: value and ommer of one received note at this depth
NoteOmmer(cmxs, nidx) ==
    IF nidx % 2 = 0
    THEN IF nidx + 1 < Len(cmxs) THEN At(cmxs, nidx + 1) ELSE None
    ELSE At(cmxs, nidx - 1)

FreshNoteStep(n, cmxs, lvl, depth) ==
    LET npos == Shr(n.position, depth)
        nidx == npos - lvl
        w0 == IF depth = 0
              THEN [n.witness EXCEPT !.position = npos, !.value = At(cmxs, nidx)]
              ELSE n.witness
    IN  [n EXCEPT !.witness =
            [w0 EXCEPT !.ommers[depth + 1] = NoteOmmer(cmxs, nidx)]]

\* the reads of FreshNoteStep that abort: cmxs[nidx].unwrap(), cmxs[nidx - 1]
FreshNotePanics(n, cmxs, lvl, depth) ==
    LET nidx == Shr(n.position, depth) - lvl
    IN  \/ nidx < 0
        \/ depth = 0 /\ (~InRange(cmxs, nidx) \/ At(cmxs, nidx) = None)
        \/ nidx % 2 = 1 /\ ~InRange(cmxs, nidx - 1)

\* lines 230-255: one boundary sibling written into its pair
PutSide(cmxs, pair, side) ==
    IF side = None THEN cmxs
    ELSE IF side[1].side = "Left"
         THEN [cmxs EXCEPT ![pair + 1] = side[1].h]
         ELSE [cmxs EXCEPT ![pair + 2] = side[1].h]

\* an Either whose `side` is not set: side.side.as_ref().unwrap() aborts
Unset == Some([side |-> "Unset", h |-> None])

PutSidePanics(cmxs, pair, side) ==
    /\ side # None
    /\ \/ side = Unset
       \/ ~InRange(cmxs, IF side[1].side = "Left" THEN pair ELSE pair + 1)

\* lines 223-259 for one bridge: [cmxs, be, panic, wrapped]
BridgeStep(cmxs, be, lvl, depth, checks) ==
    IF depth >= Len(be.b.levels)
    THEN [cmxs |-> cmxs, be |-> be, panic |-> FALSE, wrapped |-> FALSE]
    ELSE LET level == At(be.b.levels, depth)
             s == PairIndex(be.s - lvl)
             e == PairIndex(be.e - lvl)
             under == be.s - lvl < 0 \/ be.e - lvl < 0
             bad1 == PutSidePanics(cmxs, s, level.head)
             c1 == IF bad1 THEN cmxs ELSE PutSide(cmxs, s, level.head)
             bad2 == PutSidePanics(c1, e, level.tail)
             c2 == IF bad2 THEN c1 ELSE PutSide(c1, e, level.tail)
         IN  IF (checks /\ under) \/ bad1 \/ bad2
             THEN [cmxs |-> cmxs, be |-> be, panic |-> TRUE, wrapped |-> under]
             ELSE [cmxs |-> c2,
                   be |-> [be EXCEPT !.s = HalfTrunc(be.s),
                                     !.e = HalfTrunc(be.e - 1)],
                   panic |-> FALSE, wrapped |-> under]

\* the bridge loop: [cmxs, bridges, panic, wrapped]
RECURSIVE BridgesStep(_, _, _, _, _)
BridgesStep(cmxs, bes, lvl, depth, checks) ==
    IF bes = <<>>
    THEN [cmxs |-> cmxs, bridges |-> <<>>, panic |-> FALSE, wrapped |-> FALSE]
    ELSE The({
            IF one.panic
            THEN [cmxs |-> cmxs, bridges |-> bes, panic |-> TRUE,
                  wrapped |-> one.wrapped]
            ELSE The({
                    [rest EXCEPT !.bridges = <<one.be>> \o rest.bridges,
                                 !.wrapped = one.wrapped \/ rest.wrapped]
        : rest \in {BridgesStep(one.cmxs, Tail(bes), lvl, depth, checks)}})
        : one \in {BridgeStep(cmxs, Head(bes), lvl, depth, checks)}})

\* variant that takes cmxs[1] whether or not the ommer is already known
HeldNoteStepOverwrite(n, cmxs, depth) ==
    IF Len(cmxs) >= 2
    THEN [n EXCEPT !.witness.ommers[depth + 1] = At(cmxs, 1)]
    ELSE n

\* variant that fills from the first node of any non-empty level
HeldNoteStepFirstNode(n, cmxs, depth) ==
    IF Len(cmxs) >= 1 /\ At(n.witness.ommers, depth) = None
    THEN [n EXCEPT !.witness.ommers[depth + 1] = At(cmxs, 0)]
    ELSE n

\* lines 261-268: an ommer of a held note that is still None takes cmxs[1]
HeldNoteStep(n, cmxs, depth) ==
    IF Len(cmxs) >= 2 /\ At(n.witness.ommers, depth) = None
    THEN [n EXCEPT !.witness.ommers[depth + 1] = At(cmxs, 1)]
    ELSE n

\* variant that keeps the first node of an odd level
EdgeSlotFirst(cmxs) ==
    IF Len(cmxs) % 2 = 1 THEN At(cmxs, 0) ELSE None

\* lines 270-274
EdgeSlot(cmxs) ==
    IF Len(cmxs) % 2 = 1 THEN At(cmxs, Len(cmxs) - 1) ELSE None

\* lines 180-201: the level vector before the notes read it
LevelNodes(self, bs, acc, depth) ==
    LET c1 == IF Shr(self.position, depth) % 2 = 1
              THEN <<At(acc.ts, depth)>> \o acc.cmxs
              ELSE acc.cmxs
    IN  IF depth = 0 THEN c1 \o BatchCmxs(bs) ELSE c1

\* one iteration of `for depth in 0..MERKLE_DEPTH`: the received notes read
\* the level vector c2, then the bridges write into it and give c3
DepthStep(self, bs, acc, depth, checks) ==
    LET pos0 == Shr(self.position, depth)
        odd == pos0 % 2 = 1
        lvl == IF odd THEN pos0 - 1 ELSE pos0
    IN  IF acc.panic THEN acc
        ELSE IF odd /\ At(acc.ts, depth) = None
        THEN [acc EXCEPT !.panic = TRUE]
        ELSE The({
            IF \E i \in 1..Len(acc.fresh) : FreshNotePanics(acc.fresh[i], c2, lvl, depth)
            THEN [acc EXCEPT !.panic = TRUE]
            ELSE The({
                IF br.panic
                THEN [acc EXCEPT !.panic = TRUE, !.wrapped = acc.wrapped \/ br.wrapped]
                ELSE The({
                    [cmxs |-> ParallelCombineOpt(depth, c3, Len(c3) \div 2),
                     fresh |-> [i \in 1..Len(acc.fresh) |->
                                  FreshNoteStep(acc.fresh[i], c2, lvl, depth)],
                     held |-> [i \in 1..Len(acc.held) |->
                                  HeldNoteStep(acc.held[i], c3, depth)],
                     ts |-> [acc.ts EXCEPT ![depth + 1] = EdgeSlot(c3)],
                     bridges |-> br.bridges, panic |-> FALSE,
                     wrapped |-> acc.wrapped \/ br.wrapped]
        : c3 \in {br.cmxs}})
        : br \in {BridgesStep(c2, acc.bridges, lvl, depth, checks)}})
        : c2 \in {LevelNodes(self, bs, acc, depth)}})

RECURSIVE DepthLoop(_, _, _, _, _)
DepthLoop(self, bs, acc, depth, checks) ==
    IF depth = MERKLE_DEPTH THEN acc
    ELSE The({
            DepthLoop(self, bs, a, depth + 1, checks)
        : a \in {DepthStep(self, bs, acc, depth, checks)}})

(***************************************************************************)
(* Synchronizer::add, lines 287-312: spend detection.                      *)
(***************************************************************************)
\* the spend descriptions of the batch in block order
BatchSpends(bs) ==
    LET txs == FlatTxs(bs)
    IN  Flatten([t \in 1..Len(txs) |->
            [k \in 1..Len(txs[t].tx.spends) |->
                [nf |-> txs[t].tx.spends[k].nf, height |-> txs[t].height,
                 txid |-> txs[t].tx.hash]]])

\* the HashMap nf -> note collected from self.notes: the entry of a
\* nullifier is the last note that carries it (0 when there is none)
NfIndex(ns, nf) ==
    LET hits == {i \in 1..Len(ns) : ns[i].nf = nf}
    IN  IF hits = {} THEN 0 ELSE CHOOSE i \in hits : \A j \in hits : j <= i

\* variant that records the spent value without its sign
SpendUpdateUnsigned(n, sp) ==
    [account |-> n.account, txid |-> sp.txid, value |-> n.value, id_tx |-> 0,
     height |-> sp.height, id_spent |-> Some(n.nf)]

SpendUpdate(n, sp) ==
    [account |-> n.account, txid |-> sp.txid, value |-> -(n.value), id_tx |-> 0,
     height |-> sp.height, id_spent |-> Some(n.nf)]

\* variant that recomputes `spent` of every note from this batch alone
DetectSpendsFromBatch(ns, ups, sps) ==
    LET hit(n) == {k \in 1..Len(sps) : sps[k].nf = n.nf}
        last(n) == CHOOSE k \in hit(n) : \A j \in hit(n) : j <= k
        marked == {i \in 1..Len(ns) : hit(ns[i]) # {} /\ NfIndex(ns, ns[i].nf) = i}
    IN  [notes |-> [i \in 1..Len(ns) |->
                      [ns[i] EXCEPT !.spent = IF i \in marked
                                              THEN Some(sps[last(ns[i])].height)
                                              ELSE None]],
         spends |-> ups \o
            [k \in 1..Cardinality({k \in 1..Len(sps) : NfIndex(ns, sps[k].nf) # 0}) |->
                LET m == CHOOSE m \in 1..Len(sps) :
                            /\ NfIndex(ns, sps[m].nf) # 0
                            /\ Cardinality({j \in 1..m : NfIndex(ns, sps[j].nf) # 0}) = k
                IN  SpendUpdate(ns[NfIndex(ns, sps[m].nf)], sps[m])]]

\* [notes, spends] after the spend descriptions sps
RECURSIVE DetectSpends(_, _, _)
DetectSpends(ns, ups, sps) ==
    IF sps = <<>> THEN [notes |-> ns, spends |-> ups]
    ELSE LET sp == Head(sps)
             i == NfIndex(ns, sp.nf)
         IN  IF i = 0 THEN DetectSpends(ns, ups, Tail(sps))
             ELSE The({
                    DetectSpends(d.notes, d.spends, Tail(sps))
        : d \in {[notes |-> [ns EXCEPT ![i].spent = Some(sp.height)],
                        spends |-> Append(ups, SpendUpdate(ns[i], sp))]}})

(***************************************************************************)
(* Synchronizer::add as a whole.  self is the Synchronizer, bs the batch,  *)
(* order the order in which the channel delivers the decrypted notes,      *)
(* checks whether the build aborts on arithmetic overflow.  The result is  *)
(* the Synchronizer after the call, with how the call ended.               *)
(***************************************************************************)
\* variant that advances position by the output commitments only
AdvanceOutputsOnly(self, bs, acc) ==
    [self EXCEPT !.notes = acc.held \o acc.fresh,
                 !.tree_state = acc.ts,
                 !.position = self.position + Len(FlatTxs(bs)) * 0
                    + SumSeq([t \in 1..Len(FlatTxs(bs)) |->
                                Len(FlatTxs(bs)[t].tx.outputs)]),
                 !.start = self.start + Len(bs)]

\* lines 281-285
Advance(self, bs, acc) ==
    [self EXCEPT !.notes = acc.held \o acc.fresh,
                 !.tree_state = acc.ts,
                 !.position = self.position + BatchLeaves(bs),
                 !.start = self.start + Len(bs)]

\* the loop state before depth 0
\* variant that starts the witness loop with the first note the channel delivers
LoopStartFirstDelivered(self, bs, order) ==
    LET dec == DecryptAll(bs)
    IN  [cmxs |-> <<>>,
         fresh |-> [i \in 1..(IF Len(dec) = 0 THEN 0 ELSE 1) |-> ReceiveNote(self, bs, dec[order[i]])],
         held |-> self.notes, ts |-> self.tree_state,
         bridges |-> BridgeExts(FlatTxs(bs), self.position),
         panic |-> FALSE, wrapped |-> FALSE]

LoopStart(self, bs, order) ==
    LET dec == DecryptAll(bs)
    IN  [cmxs |-> <<>>,
         fresh |-> [i \in 1..Len(dec) |-> ReceiveNote(self, bs, dec[order[i]])],
         held |-> self.notes, ts |-> self.tree_state,
         bridges |-> BridgeExts(FlatTxs(bs), self.position),
         panic |-> FALSE, wrapped |-> FALSE]

\* an unwrap or index panic leaves add in the middle of the loop
Aborted(self, acc) ==
    [self |-> [self EXCEPT !.notes = acc.held, !.tree_state = acc.ts],
     result |-> "panic", wrapped |-> acc.wrapped]

\* variant that detects spends before the received notes are appended
AddRunDetectFirst(self, bs, order, checks) ==
    The({
        IF acc.panic THEN Aborted(self, acc)
        ELSE The({
                [self |-> [Advance(self, bs, [acc EXCEPT !.held = det.notes])
                             EXCEPT !.spends = det.spends],
                 result |-> "ok", wrapped |-> acc.wrapped]
        : det \in {DetectSpends(acc.held, self.spends, BatchSpends(bs))}})
        : acc \in {DepthLoop(self, bs, LoopStart(self, bs, order), 0, checks)}})

AddRun(self, bs, order, checks) ==
    The({
        IF acc.panic THEN Aborted(self, acc)
        ELSE The({
             The({
                [self |-> [adv EXCEPT !.notes = det.notes, !.spends = det.spends],
                 result |-> "ok", wrapped |-> acc.wrapped]
        : det \in {DetectSpends(adv.notes, adv.spends, BatchSpends(bs))}})
        : adv \in {Advance(self, bs, acc)}})
        : acc \in {DepthLoop(self, bs, LoopStart(self, bs, order), 0, checks)}})

\* every way the call can end: a build without overflow checks wraps, a
\* build with them aborts at the first subtraction below zero
AddOutcomes(self, bs, order) ==
    The({
        IF rel.wrapped THEN {rel, AddRun(self, bs, order, TRUE)} ELSE {rel}
        : rel \in {AddRun(self, bs, order, FALSE)}})

(***************************************************************************)
(* The chain source.  It serves contiguous batches of compact blocks whose *)
(* commitments continue the chain's tree, whose nullifiers are revealed at *)
(* most once and only after the note exists, and whose bridges carry the   *)
(* true nodes of the tree: at every level the sibling that completes the   *)
(* pair at the left end of the hidden range (head) and at its right end    *)
(* (tail), until no hidden node is left.                                   *)
(***************************************************************************)
Left(h) == Some([side |-> "Left", h |-> h])
Right(h) == Some([side |-> "Right", h |-> h])

\* levels d, d+1, ... of the bridge whose hidden nodes at level d are a..b
RECURSIVE HonestLevels(_, _, _)
HonestLevels(a, b, d) ==
    IF a > b \/ d >= MERKLE_DEPTH THEN <<>>
    ELSE <<[head |-> IF a % 2 = 1 THEN Right(TrueNode(d, a)) ELSE None,
            tail |-> IF b % 2 = 0 THEN Left(TrueNode(d, b)) ELSE None]>>
         \o HonestLevels((a + 1) \div 2, (b + 1) \div 2 - 1, d + 1)

\* plaintext value of the output at leaf p
NoteValue(p) == 10 + p

\* what the chain source serves: the owners of outputs, and the limits
TreeProfile ==
    [owners |-> {0, 1}, maxPosition |-> MaxPosition, maxHeight |-> MaxHeight,
     maxBlocks |-> MaxBlocks, maxTx |-> MaxTx, maxOutputs |-> MaxOutputs,
     maxBridgeLen |-> MaxBridgeLen, maxHits |-> MaxHits, maxSpends |-> 0]

SpendProfile ==
    [owners |-> {0} \cup Accounts, maxPosition |-> SpendMaxPosition,
     maxHeight |-> SpendMaxHeight, maxBlocks |-> SpendMaxBlocks,
     maxTx |-> SpendMaxTx, maxOutputs |-> SpendMaxOutputs,
     maxBridgeLen |-> SpendMaxBridgeLen, maxHits |-> SpendMaxHits,
     maxSpends |-> MaxSpends]

\* a chain long enough for a bridge to start at leaf 4
PadProfile ==
    [owners |-> {0, 1}, maxPosition |-> PadMaxPosition, maxHeight |-> MaxHeight,
     maxBlocks |-> PadMaxBlocks, maxTx |-> MaxTx, maxOutputs |-> MaxOutputs,
     maxBridgeLen |-> MaxBridgeLen, maxHits |-> PadMaxHits, maxSpends |-> 0]

Min(a, b) == IF a <= b THEN a ELSE b

\* a transaction before its place in the chain is known:
\* [outs (the owner of each output), bridge (its length, 0 for none)]
OutSeqs(pf, n) == UNION {[1..k -> pf.owners] : k \in 0..n}

ShapeLeaves(t) == Len(t.outs) + t.bridge

TxShapes(pf, room) ==
    {t \in [outs : OutSeqs(pf, Min(room, pf.maxOutputs)),
            bridge : 0..pf.maxBridgeLen] : ShapeLeaves(t) <= room}

SeqLeaves(ts) == SumSeq([j \in 1..Len(ts) |-> ShapeLeaves(ts[j])])

\* blocks: at most n transactions with at most room leaves
RECURSIVE TxSeqs(_, _, _)
TxSeqs(pf, room, n) ==
    {<<>>} \cup
    (IF n = 0 THEN {}
     ELSE UNION {{<<t>> \o r : r \in TxSeqs(pf, room - ShapeLeaves(t), n - 1)} :
                 t \in TxShapes(pf, room)})

\* batches: at most n blocks with at most room leaves
RECURSIVE BlockSeqs(_, _, _)
BlockSeqs(pf, room, n) ==
    {<<>>} \cup
    (IF n <= 0 THEN {}
     ELSE UNION {{<<b>> \o r : r \in BlockSeqs(pf, room - SeqLeaves(b), n - 1)} :
                 b \in TxSeqs(pf, room, pf.maxTx)})

\* the transactions of a batch of shapes, each with its block index i, its
\* index j in the block and the position p of its first leaf
RECURSIVE PlaceTxs(_, _, _, _)
PlaceTxs(shape, i, j, p) ==
    IF i > Len(shape) THEN <<>>
    ELSE IF j > Len(shape[i]) THEN PlaceTxs(shape, i + 1, 1, p)
    ELSE <<[i |-> i, j |-> j, p |-> p, t |-> shape[i][j]]>>
         \o PlaceTxs(shape, i, j + 1, p + ShapeLeaves(shape[i][j]))

\* nullifiers of the notes the placed transactions create
CreatedNfs(placed) ==
    UNION {{Nf(placed[x].t.outs[k], placed[x].p + k - 1) :
              k \in {k \in 1..Len(placed[x].t.outs) : placed[x].t.outs[k] # 0}} :
           x \in 1..Len(placed)}

ShapeHits(placed) == Cardinality(CreatedNfs(placed))

\* spend descriptions [x, nf] (x the transaction's index in placed) the chain
\* can carry: a foreign nullifier, or the nullifier of an unspent note of the
\* wallet created before the transaction
SpendChoices(placed, unspent) ==
    {c \in [x : 1..Len(placed), nf : {ForeignNf} \cup unspent \cup CreatedNfs(placed)] :
        c.nf \in {ForeignNf} \cup unspent \cup CreatedNfs(SubSeq(placed, 1, c.x - 1))}

\* sets of at most n spend descriptions, no nullifier revealed twice
RECURSIVE SpendSets(_, _)
SpendSets(choices, n) ==
    {{}} \cup
    (IF n = 0 THEN {}
     ELSE UNION {{S \cup {c} : S \in SpendSets({d \in choices : d.nf # c.nf}, n - 1)} :
                 c \in choices})

RECURSIVE SetToSeq(_)
SetToSeq(S) ==
    IF S = {} THEN <<>>
    ELSE LET c == CHOOSE c \in S : TRUE IN <<c>> \o SetToSeq(S \ {c})

\* the compact transaction of a placed shape
MakeTx(pl, height, sps) ==
    LET a == pl.p + Len(pl.t.outs)
    IN  [hash |-> <<height, pl.j - 1>>,
         outputs |-> [k \in 1..Len(pl.t.outs) |->
                        [cmu |-> Cmu(pl.p + k - 1), owner |-> pl.t.outs[k],
                         value |-> NoteValue(pl.p + k - 1)]],
         spends |-> [k \in 1..Len(sps) |-> [nf |-> sps[k].nf]],
         sapling_bridge |->
            IF pl.t.bridge = 0 THEN None
            ELSE Some([len |-> pl.t.bridge,
                       levels |-> HonestLevels(a, a + pl.t.bridge - 1, 0)])]

\* the compact blocks of a batch of shapes that follows the chain ch
MakeBlocks(shape, sset, ch) ==
    LET placed == PlaceTxs(shape, 1, 1, ch.leaves)
    IN  [i \in 1..Len(shape) |->
            [height |-> ch.height + i,
             vtx |-> [j \in 1..Len(shape[i]) |->
                LET x == CHOOSE x \in 1..Len(placed) :
                            placed[x].i = i /\ placed[x].j = j
                IN  MakeTx(placed[x], ch.height + i,
                           SetToSeq({c \in sset : c.x = x}))]]]

\* every batch the chain source can serve next: [shape, sset]
BatchChoices(pf, ch) ==
    LET room == pf.maxPosition - ch.leaves
        high == Min(pf.maxHeight - ch.height, pf.maxBlocks)
    IN  UNION {
            LET placed == PlaceTxs(shape, 1, 1, ch.leaves)
            IN  IF ShapeHits(placed) > pf.maxHits THEN {}
                ELSE {[shape |-> shape, sset |-> sset] :
                        sset \in SpendSets(SpendChoices(placed, ch.unspent), pf.maxSpends)}
            : shape \in BlockSeqs(pf, room, high)}

\* the chain after it has served the batch c
ChainAfter(ch, c) ==
    LET placed == PlaceTxs(c.shape, 1, 1, ch.leaves)
    IN  [height |-> ch.height + Len(c.shape),
         leaves |-> ch.leaves + SumSeq([i \in 1..Len(c.shape) |-> SeqLeaves(c.shape[i])]),
         unspent |-> (ch.unspent \cup CreatedNfs(placed)) \ {d.nf : d \in c.sset}]

(***************************************************************************)
(* FeeManager (src/pay/fee.rs).  Pools are 0 (transparent), 1 (Sapling)    *)
(* and 2 (Orchard); the counters are u8 and so is the sum t + s + o.       *)
(***************************************************************************)
U8(x) == x % 256

\* lines 22-30
SaplingActions(ni, no) ==
    LET o == IF At(ni, 1) > 0 THEN Max(At(no, 1), 2) ELSE At(no, 1)
    IN  Max(At(ni, 1), o)

\* lines 31-36
OrchardActions(ni, no) ==
    IF At(ni, 2) > 0 \/ At(no, 2) > 0
    THEN Max(Max(At(ni, 2), At(no, 2)), 2)
    ELSE 0

\* let f = t + s + o, over the integers
ActionSum(ni, no) ==
    Max(At(ni, 0), At(no, 0)) + SaplingActions(ni, no) + OrchardActions(ni, no)

\* t + s + o does not fit a u8: fee() aborts under overflow checks, and
\* wraps without them
FeeOverflows(ni, no) == ActionSum(ni, no) > 255

\* FeeManager::fee, as it returns without overflow checks
Fee(ni, no) ==
    LET t == Max(At(ni, 0), At(no, 0))
        s == SaplingActions(ni, no)
        o == OrchardActions(ni, no)
        f == U8(U8(t + s) + o)
    IN  f * 5000

\* self.num_inputs[pool] += 1 / self.num_outputs[pool] += 1
Bump(counts, pool) == [counts EXCEPT ![pool + 1] = U8(@ + 1)]

\* one add_input / add_output call on the counters (ni, no) in a build with
\* (checks) or without overflow checks; op names the counter array
AddCall(ni, no, op, pool, checks) ==
    LET cur == IF op = "add_input" THEN ni ELSE no
        ni2 == IF op = "add_input" THEN Bump(ni, pool) ELSE ni
        no2 == IF op = "add_input" THEN no ELSE Bump(no, pool)
        before == Fee(ni, no)
        after == Fee(ni2, no2)
    IN  IF checks /\ (FeeOverflows(ni, no) \/ At(cur, pool) = 255)
        THEN [ni |-> ni, no |-> no, outcome |-> "panic", ret |-> 0, borrow |-> FALSE]
        ELSE IF checks /\ (FeeOverflows(ni2, no2) \/ after < before)
        THEN [ni |-> ni2, no |-> no2, outcome |-> "panic", ret |-> 0, borrow |-> FALSE]
        ELSE [ni |-> ni2, no |-> no2, outcome |-> "returned",
              ret |-> after - before, borrow |-> after < before]

(***************************************************************************)
(* TransparentSync (src/warp/sync/transparent.rs).                         *)
(*   TransparentTx [account, height, timestamp, txid, vins, vouts]         *)
(*   vin  [txid, vout] (the previous outpoint), vout [address, value, vout] *)
(*   UTXO [is_new, id, account, height, txid, vout, address, value]        *)
(* The address of account a is written a; 0 is an address of no account.   *)
(***************************************************************************)
\* self.addresses: the accounts that have a transparent address
TAddresses == {1, 2}

OutPoint(txid, vout) == [txid |-> txid, vout |-> vout]

\* variant that looks the UTXO up by transaction id alone
FindUtxoByTxid(us, vin) ==
    LET hits == {i \in 1..Len(us) : us[i].txid = vin.txid}
    IN  IF hits = {} THEN 0 ELSE CHOOSE i \in hits : \A j \in hits : i <= j

\* lines 48-51: index of the first UTXO with the outpoint vin, 0 for none
FindUtxo(us, vin) ==
    LET hits == {i \in 1..Len(us) : us[i].txid = vin.txid /\ us[i].vout = vin.vout}
    IN  IF hits = {} THEN 0 ELSE CHOOSE i \in hits : \A j \in hits : i <= j

\* lines 53-63
VinUpdate(utxo, tx, vin) ==
    [id_tx |-> 0, account |-> tx.account, txid |-> tx.txid, value |-> -(utxo.value),
     height |-> tx.height, id_spent |-> Some(OutPoint(vin.txid, vin.vout))]

\* lines 47-66: the updates the inputs of tx append
ProcessVins(us, tx) ==
    Flatten([k \in 1..Len(tx.vins) |->
        IF FindUtxo(us, tx.vins[k]) = 0 THEN <<>>
        ELSE <<VinUpdate(us[FindUtxo(us, tx.vins[k])], tx, tx.vins[k])>>])

\* lines 68-84
VoutReceived(tx, txout) ==
    <<[id |-> 0, account |-> tx.account, height |-> tx.height, txid |-> tx.txid,
       timestamp |-> tx.timestamp, ivtx |-> 0, value |-> 0],
      OutPoint(tx.txid, txout.vout), txout.value>>

\* variant that numbers the outputs by their place in the filtered list
VoutUtxoByIndex(tx, k) ==
    [is_new |-> TRUE, id |-> 0, account |-> tx.account, height |-> tx.height,
     txid |-> tx.txid, vout |-> k - 1, address |-> tx.account,
     value |-> tx.vouts[k].value]

\* lines 92-101, for the k-th entry of tx.vouts
VoutUtxo(tx, k) ==
    [is_new |-> TRUE, id |-> 0, account |-> tx.account, height |-> tx.height,
     txid |-> tx.txid, vout |-> tx.vouts[k].vout, address |-> tx.account,
     value |-> tx.vouts[k].value]

\* variant that pushes the outputs of tx before it matches the inputs of tx
ProcessTxOutputsFirst(st, tx) ==
    IF st.panic THEN st
    ELSE IF tx.vouts # <<>> /\ tx.account \notin TAddresses
    THEN [st EXCEPT !.tx_updates = @ \o ProcessVins(st.utxos, tx),
                    !.txs = Append(@, VoutReceived(tx, tx.vouts[1])),
                    !.panic = TRUE]
    ELSE [utxos |-> st.utxos \o [k \in 1..Len(tx.vouts) |-> VoutUtxo(tx, k)],
          txs |-> st.txs \o [k \in 1..Len(tx.vouts) |-> VoutReceived(tx, tx.vouts[k])],
          tx_updates |-> st.tx_updates \o
              ProcessVins(st.utxos \o [k \in 1..Len(tx.vouts) |-> VoutUtxo(tx, k)], tx),
          panic |-> FALSE]

\* one iteration of `for tx in txs` on st = [utxos, txs, tx_updates, panic];
\* the unwrap of line 90 aborts after the first record has been pushed when
\* the account has no address
ProcessTx(st, tx) ==
    IF st.panic THEN st
    ELSE IF tx.vouts # <<>> /\ tx.account \notin TAddresses
    THEN [st EXCEPT !.tx_updates = @ \o ProcessVins(st.utxos, tx),
                    !.txs = Append(@, VoutReceived(tx, tx.vouts[1])),
                    !.panic = TRUE]
    ELSE [utxos |-> st.utxos \o [k \in 1..Len(tx.vouts) |-> VoutUtxo(tx, k)],
          txs |-> st.txs \o [k \in 1..Len(tx.vouts) |-> VoutReceived(tx, tx.vouts[k])],
          tx_updates |-> st.tx_updates \o ProcessVins(st.utxos, tx),
          panic |-> FALSE]

\* TransparentSync::process_txs
RECURSIVE ProcessTxs(_, _)
ProcessTxs(st, txs) ==
    IF txs = <<>> THEN st
    ELSE The({ProcessTxs(x, Tail(txs)) : x \in {ProcessTx(st, Head(txs))}})

(***************************************************************************)
(* The transparent chain and get_transparent (src/lwd.rs).  A chain        *)
(* transaction is [txid, height, vin, vout]: vin the outputs it spends     *)
(* ([txid, vout, addr]), vout the address of each output.  No output is    *)
(* spent twice.                                                            *)
(***************************************************************************)
TValue(height, vout) == 10 * height + vout + 1

\* the transactions a block at height h can hold next on a chain whose
\* unspent outputs are unspent; i is the transaction's index in its block
ChainTxs(unspent, h, i) ==
    {t \in [txid : {<<h, i>>}, height : {h},
            vin : {SetToSeq(S) : S \in {S \in SUBSET unspent : Cardinality(S) <= MaxVins}},
            vout : UNION {[1..k -> 0..2] : k \in 0..MaxVouts}] :
        t.vin # <<>> \/ t.vout # <<>>}

UnspentAfter(unspent, t) ==
    (unspent \ {t.vin[k] : k \in 1..Len(t.vin)})
    \cup {[txid |-> t.txid, vout |-> k - 1, addr |-> t.vout[k]] : k \in 1..Len(t.vout)}

\* blocks of at most n transactions: [txs, unspent]
RECURSIVE ChainBlocks(_, _, _, _)
ChainBlocks(unspent, h, i, n) ==
    {[txs |-> <<>>, unspent |-> unspent]} \cup
    (IF n = 0 THEN {}
     ELSE UNION {{[txs |-> <<t>> \o r.txs, unspent |-> r.unspent] :
                    r \in ChainBlocks(UnspentAfter(unspent, t), h, i + 1, n - 1)} :
                 t \in ChainTxs(unspent, h, i)})

\* get_taddress_txids: the transaction spends from or pays to the address
Touches(t, a) ==
    \/ \E k \in 1..Len(t.vin) : t.vin[k].addr = a
    \/ \E k \in 1..Len(t.vout) : t.vout[k] = a

\* lwd.rs 155-183: all the previous outpoints, and the outputs to taddr
ToTransparentTx(account, t) ==
    LET outs == [k \in 1..Len(t.vout) |->
                    [address |-> t.vout[k], value |-> TValue(t.height, k - 1),
                     vout |-> k - 1]]
        Mine(o) == o.address = account
    IN  [account |-> account, height |-> t.height, timestamp |-> 0, txid |-> t.txid,
         vins |-> [k \in 1..Len(t.vin) |-> OutPoint(t.vin[k].txid, t.vin[k].vout)],
         vouts |-> SelectSeq(outs, Mine)]

\* get_transparent(account, taddr, ..) over the transactions of a block
RECURSIVE GetTransparent(_, _)
GetTransparent(account, block) ==
    IF block = <<>> THEN <<>>
    ELSE (IF Touches(Head(block), account)
          THEN <<ToTransparentTx(account, Head(block))>> ELSE <<>>)
         \o GetTransparent(account, Tail(block))

(***************************************************************************)
(* The synchronizer as a state machine: the caller fetches the next batch  *)
(* (Fetch) and Synchronizer::add ingests it in one step (Add).             *)
(***************************************************************************)
Self ==
    [start |-> start, position |-> position, tree_state |-> tree_state,
     notes |-> notes, spends |-> spends]

\* Synchronizer::new on a wallet without notes, at the start of the chain
SyncInit ==
    /\ start = 0
    /\ position = 0
    /\ tree_state = EmptyEdge
    /\ notes = <<>>
    /\ spends = <<>>
    /\ blocks = <<>>
    /\ prev = [start |-> 0, position |-> 0, tree_state |-> EmptyEdge,
               notes |-> <<>>, spends |-> <<>>]
    /\ pc = "ready"
    /\ result = "none"
    /\ chain = [height |-> 0, leaves |-> 0, unspent |-> {}]

\* FeeManager::default()
FeeInit ==
    /\ num_inputs = <<0, 0, 0>>
    /\ num_outputs = <<0, 0, 0>>
    /\ ret = 0
    /\ call = [op |-> "none", pool |-> 0, n |-> 0, outcome |-> "none", borrow |-> FALSE]
    /\ overflow_checks = FALSE
    /\ deltas = [sum |-> 0, borrows |-> 0]

\* a FeeManager that earlier calls have brought to some counter state, in
\* either build; a state whose action sum fits a u8 is reached from
\* default() by as many calls as its counters add up to, since the sum
\* never decreases on the way, and the deltas returned on the way add up
\* to its fee
FeeStarted ==
    /\ num_inputs \in [1..3 -> StartCounts]
    /\ num_outputs \in [1..3 -> StartCounts]
    /\ ~FeeOverflows(num_inputs, num_outputs)
    /\ ret = 0
    /\ call = [op |-> "none", pool |-> 0, n |-> 0, outcome |-> "none", borrow |-> FALSE]
    /\ overflow_checks \in BOOLEAN
    /\ deltas = [sum |-> Fee(num_inputs, num_outputs), borrows |-> 0]

\* the caller hands the next batch of the chain to add
FetchFrom(pf) ==
    /\ pc = "ready"
    /\ \E c \in BatchChoices(pf, chain) :
        /\ blocks' = MakeBlocks(c.shape, c.sset, chain)
        /\ chain' = ChainAfter(chain, c)
    /\ prev' = Self
    /\ pc' = "running"
    /\ UNCHANGED <<start, position, tree_state, notes, spends, result>>
    /\ UNCHANGED feeVars
    /\ UNCHANGED transVars
    /\ UNCHANGED cliVars
    /\ UNCHANGED bridgeVars
    /\ UNCHANGED loopVars

Fetch == FetchFrom(TreeProfile)

\* the sides a bridge of the batch carries: [i, j, d, at]
BridgeSides(bs) ==
    {c \in [i : 1..Len(bs), j : 1..MaxTx, d : 1..MERKLE_DEPTH, at : {"head", "tail"}] :
        /\ c.j <= Len(bs[c.i].vtx)
        /\ bs[c.i].vtx[c.j].sapling_bridge # None
        /\ c.d <= Len(bs[c.i].vtx[c.j].sapling_bridge[1].levels)
        /\ bs[c.i].vtx[c.j].sapling_bridge[1].levels[c.d][c.at] # None}

\* the batch with the side c left unset
Break(bs, c) ==
    [bs EXCEPT ![c.i].vtx[c.j].sapling_bridge[1].levels[c.d][c.at] = Unset]

\* the server hands over a batch with one malformed bridge side
FetchFault ==
    /\ pc = "ready"
    /\ \E b \in BatchChoices(TreeProfile, chain) :
        /\ chain' = ChainAfter(chain, b)
        /\ \E c \in BridgeSides(MakeBlocks(b.shape, b.sset, chain)) :
            blocks' = Break(MakeBlocks(b.shape, b.sset, chain), c)
    /\ prev' = Self
    /\ pc' = "running"
    /\ UNCHANGED <<start, position, tree_state, notes, spends, result>>
    /\ UNCHANGED feeVars
    /\ UNCHANGED transVars
    /\ UNCHANGED cliVars
    /\ UNCHANGED bridgeVars
    /\ UNCHANGED loopVars

\* the bridges of the batch: [i, j]
BatchBridges(bs) ==
    {c \in [i : 1..Len(bs), j : 1..MaxTx] :
        /\ c.j <= Len(bs[c.i].vtx)
        /\ bs[c.i].vtx[c.j].sapling_bridge # None}

\* the batch with one more level, without siblings, on the bridge c
Pad(bs, c) ==
    [bs EXCEPT ![c.i].vtx[c.j].sapling_bridge[1].levels =
        Append(@, [head |-> None, tail |-> None])]

FetchPad == FetchFrom(PadProfile)

\* the server hands over a batch in which one bridge lists a level above
\* its last sibling
FetchPadded ==
    /\ pc = "ready"
    /\ \E b \in BatchChoices(PadProfile, chain) :
        /\ chain' = ChainAfter(chain, b)
        /\ \E c \in BatchBridges(MakeBlocks(b.shape, b.sset, chain)) :
            blocks' = Pad(MakeBlocks(b.shape, b.sset, chain), c)
    /\ prev' = Self
    /\ pc' = "running"
    /\ UNCHANGED <<start, position, tree_state, notes, spends, result>>
    /\ UNCHANGED feeVars
    /\ UNCHANGED transVars
    /\ UNCHANGED cliVars
    /\ UNCHANGED bridgeVars
    /\ UNCHANGED loopVars

FetchSpend == FetchFrom(SpendProfile)

\* the transactions of the design's bridge-skip scenario: an output A at
\* leaf 0, a bridge over the leaves 1..3 whose levels[0] is head Right(H0),
\* tail Left(H1) (H0, H1 the commitments of the leaves 1 and 2), followed by
\* the levels upper, and an output B at leaf 4
SkipTxs(upper) ==
    <<[outputs |-> <<[cmu |-> Cmu(0), owner |-> 1, value |-> NoteValue(0)]>>,
       spends |-> <<>>, sapling_bridge |-> None],
      [outputs |-> <<>>, spends |-> <<>>,
       sapling_bridge |->
          Some([len |-> 3,
                levels |-> <<[head |-> Right(Cmu(1)), tail |-> Left(Cmu(2))]>> \o upper])],
      [outputs |-> <<[cmu |-> Cmu(4), owner |-> 1, value |-> NoteValue(4)]>>,
       spends |-> <<>>, sapling_bridge |-> None]>>

\* the scenario as one block of three transactions, or as three blocks
SkipBlocks(upper, oneBlock) ==
    LET txs == SkipTxs(upper)
        Tx(k, h, j) == [hash |-> <<h, j>>, outputs |-> txs[k].outputs,
                        spends |-> txs[k].spends, sapling_bridge |-> txs[k].sapling_bridge]
    IN  IF oneBlock
        THEN <<[height |-> 1, vtx |-> [k \in 1..3 |-> Tx(k, 1, k - 1)]]>>
        ELSE [k \in 1..3 |-> [height |-> k, vtx |-> <<Tx(k, k, 0)>>]]

\* the server serves the scenario to a wallet at the start of the chain
FetchSkip ==
    /\ pc = "ready"
    /\ chain.height = 0
    /\ chain.leaves = 0
    /\ \E upper \in {<<>>, HonestLevels(1, 1, 1)}, oneBlock \in BOOLEAN :
        /\ blocks' = SkipBlocks(upper, oneBlock)
        /\ chain' = [height |-> Len(SkipBlocks(upper, oneBlock)), leaves |-> 5,
                     unspent |-> {Nf(1, 0), Nf(1, 4)}]
    /\ prev' = Self
    /\ pc' = "running"
    /\ UNCHANGED <<start, position, tree_state, notes, spends, result>>
    /\ UNCHANGED feeVars
    /\ UNCHANGED transVars
    /\ UNCHANGED cliVars
    /\ UNCHANGED bridgeVars
    /\ UNCHANGED loopVars

Add ==
    /\ pc = "running"
    /\ \E order \in Perms(Len(DecryptAll(blocks))) :
        \E out \in AddOutcomes(Self, blocks, order) :
            /\ start' = out.self.start
            /\ position' = out.self.position
            /\ tree_state' = out.self.tree_state
            /\ notes' = out.self.notes
            /\ spends' = out.self.spends
            /\ result' = out.result
            /\ pc' = IF out.result = "ok" THEN "ready" ELSE "panicked"
    /\ UNCHANGED <<blocks, prev, chain>>
    /\ UNCHANGED feeVars
    /\ UNCHANGED transVars
    /\ UNCHANGED cliVars
    /\ UNCHANGED bridgeVars
    /\ UNCHANGED loopVars

\* the value returned is ret, plus 2^64 when call.borrow is set
FeeCall(op, pool) ==
    /\ call.outcome # "panic"
    /\ call.n < MaxCalls
    /\ LET out == AddCall(num_inputs, num_outputs, op, pool, overflow_checks)
       IN  /\ num_inputs' = out.ni
           /\ num_outputs' = out.no
           /\ ret' = out.ret
           /\ call' = [op |-> op, pool |-> pool, n |-> call.n + 1,
                       outcome |-> out.outcome, borrow |-> out.borrow]
           /\ deltas' = IF out.outcome = "returned"
                        THEN [sum |-> deltas.sum + out.ret,
                              borrows |-> deltas.borrows + (IF out.borrow THEN 1 ELSE 0)]
                        ELSE deltas
    /\ UNCHANGED overflow_checks
    /\ UNCHANGED syncVars
    /\ UNCHANGED transVars
    /\ UNCHANGED cliVars
    /\ UNCHANGED bridgeVars
    /\ UNCHANGED loopVars

\* FeeManager::add_input(pool)
AddInput(pool) == FeeCall("add_input", pool)

\* FeeManager::add_output(pool)
AddOutput(pool) == FeeCall("add_output", pool)

\* TransparentSync::new on a wallet without UTXOs
TransInit ==
    /\ utxos = <<>>
    /\ rtxs = <<>>
    /\ tx_updates = <<>>
    /\ tcall = [batch |-> <<>>, prev |-> [utxos |-> <<>>, txs |-> <<>>, tx_updates |-> <<>>],
                result |-> "none"]
    /\ tchain = [height |-> 0, unspent |-> {}, block |-> <<>>, pending |-> <<>>, ntx |-> 0]

\* the chain grows by one block; every account with an address is then synced
TMine ==
    /\ tchain.pending = <<>>
    /\ tchain.height < MaxTHeight
    /\ tcall.result # "panic"
    /\ \E b \in ChainBlocks(tchain.unspent, tchain.height + 1, 0,
                            Min(MaxTTx, MaxChainTxs - tchain.ntx)) :
        tchain' = [height |-> tchain.height + 1, unspent |-> b.unspent,
                   block |-> b.txs, pending |-> <<1, 2>>,
                   ntx |-> tchain.ntx + Len(b.txs)]
    /\ UNCHANGED <<utxos, rtxs, tx_updates, tcall>>
    /\ UNCHANGED syncVars
    /\ UNCHANGED feeVars
    /\ UNCHANGED cliVars
    /\ UNCHANGED bridgeVars
    /\ UNCHANGED loopVars

\* process_txs on what get_transparent returns for the next account
TProcess ==
    /\ tchain.pending # <<>>
    /\ tcall.result # "panic"
    /\ LET batch == GetTransparent(Head(tchain.pending), tchain.block)
           before == [utxos |-> utxos, txs |-> rtxs, tx_updates |-> tx_updates]
       IN  \E out \in {ProcessTxs([utxos |-> utxos, txs |-> rtxs, tx_updates |-> tx_updates,
                                    panic |-> FALSE], batch)} :
            /\ utxos' = out.utxos
            /\ rtxs' = out.txs
            /\ tx_updates' = out.tx_updates
            /\ tcall' = [batch |-> batch, prev |-> before,
                         result |-> IF out.panic THEN "panic" ELSE "ok"]
    /\ tchain' = [tchain EXCEPT !.pending = Tail(@)]
    /\ UNCHANGED syncVars
    /\ UNCHANGED feeVars
    /\ UNCHANGED cliVars
    /\ UNCHANGED bridgeVars
    /\ UNCHANGED loopVars

\* process_txs is public and takes any slice of TransparentTx: the
\* transactions a caller can hand it, each with at most one input and at
\* most one output, the output at index 0 and to the address of tx.account
SliceTxids == {<<1, 0>>, <<1, 1>>}

SliceTxs ==
    {[account |-> a, height |-> id[1], timestamp |-> 0, txid |-> id, vins |-> vi,
      vouts |-> IF pays THEN <<[address |-> a, value |-> TValue(id[1], 0), vout |-> 0]>>
                ELSE <<>>] :
        a \in TAddresses, id \in SliceTxids, pays \in BOOLEAN,
        vi \in {<<>>} \cup {<<OutPoint(p, 0)>> : p \in SliceTxids}}

\* a slice holds a transaction once
Slices ==
    {<<>>} \cup {<<t>> : t \in SliceTxs}
    \cup {<<p[1], p[2]>> : p \in {p \in SliceTxs \X SliceTxs : p[1].txid # p[2].txid}}

\* process_txs(txs) on a slice of the caller's choice
TProcessSlice ==
    /\ tcall.result # "panic"
    /\ Len(utxos) + Len(tx_updates) < MaxSliceRecords
    /\ \E batch \in Slices :
        \E out \in {ProcessTxs([utxos |-> utxos, txs |-> rtxs, tx_updates |-> tx_updates,
                                 panic |-> FALSE], batch)} :
            /\ utxos' = out.utxos
            /\ rtxs' = out.txs
            /\ tx_updates' = out.tx_updates
            /\ tcall' = [batch |-> batch,
                         prev |-> [utxos |-> utxos, txs |-> rtxs, tx_updates |-> tx_updates],
                         result |-> IF out.panic THEN "panic" ELSE "ok"]
    /\ UNCHANGED tchain
    /\ UNCHANGED syncVars
    /\ UNCHANGED feeVars
    /\ UNCHANGED cliVars
    /\ UNCHANGED bridgeVars
    /\ UNCHANGED loopVars

(***************************************************************************)
(* The command line (src/cli.rs) and the expansion of recipients           *)
(* (src/pay.rs).  An address string is the pair of its prefix and, for a   *)
(* unified address, the set of receivers it encodes.  A tree frontier is   *)
(* known by its pool and the height it was taken at.                       *)
(***************************************************************************)
\* CONFIG.confirmations and the confirmations argument of Sync range over 0..MaxConfirmations
MaxConfirmations == 2
\* blocks the chain grows by
MaxNewBlocks == 1
\* amounts paid, recipients of a payment URI, amounts moved between pools
MaxAmount == 1
MaxRecipients == 2
MaxTransfer == 3
\* the Sapling activation height of the network (scaled down)
ActivationHeight == 0
\* blocks of one warp_sync batch
SyncBatch == 100000

\* the address strings a user may type; a unified address has a shielded receiver
Addresses ==
    {<<"t1", {}>>, <<"zs", {}>>, <<"??", {}>>}
    \cup {<<"u1", r>> : r \in {q \in SUBSET {"T", "S", "O"} : q \cap {"S", "O"} # {}}}

\* RecipientAddress::decode: the variant the string encodes, None when it encodes none
Decode(address) ==
    CASE address[1] = "t1" -> Some([variant |-> "Transparent"])
      [] address[1] = "zs" -> Some([variant |-> "Shielded"])
      [] address[1] = "u1" -> Some([variant |-> "Unified",
                                    transparent |-> "T" \in address[2],
                                    sapling |-> "S" \in address[2],
                                    orchard |-> "O" \in address[2]])
      [] OTHER -> None

\* ExtendedPayment::to_extended: None stands for Err("Invalid Address")
ToExtended(payment) ==
    LET ua == Decode(payment.address)
    IN  IF ua = None THEN None
        ELSE LET pool == CASE ua[1].variant = "Shielded" -> 1
                           [] ua[1].variant = "Transparent" -> 0
                           [] ua[1].variant = "Unified" ->
                                (IF ua[1].sapling THEN 1 ELSE 0)
                                + (IF ua[1].orchard THEN 2 ELSE 0)
             IN  Some([payment |-> payment, amount |-> payment.amount,
                       remaining |-> payment.amount, pool |-> pool])

\* make_payment / PaymentBuilder::new: every recipient is expanded and the
\* builder keeps the height and the two frontiers it is handed
MakePayment(height, recipients, s, o) ==
    LET outs == [i \in 1..Len(recipients) |-> ToExtended(recipients[i])]
    IN  IF \E i \in 1..Len(outs) : outs[i] = None
        THEN [result |-> "InvalidAddress", builder |-> None, outputs |-> <<>>]
        ELSE [result |-> "ok",
              builder |-> Some([height |-> height, s_edge |-> s, o_edge |-> o]),
              outputs |-> [i \in 1..Len(outs) |-> outs[i][1]]]

\* Store::snap_to_checkpoint(h): the greatest stored checkpoint <= h
SnapToCheckpoint(cps, h) ==
    LET below == {c \in cps : c <= h}
    IN  IF below = {} THEN None
        ELSE Some(CHOOSE c \in below : \A d \in below : d <= c)

\* Store::get_sync_height: the greatest stored checkpoint
GetSyncHeight(cps) ==
    IF cps = {} THEN None ELSE Some(CHOOSE c \in cps : \A d \in cps : d <= c)

\* get_tree_state(client, height): both frontiers come from one TreeState reply
GetTreeState(height) ==
    [sapling |-> [pool |-> "sapling", height |-> height],
     orchard |-> [pool |-> "orchard", height |-> height]]

Failed(error) == [result |-> error, builder |-> None, outputs |-> <<>>]

\* the command name(arg) ended with out, after that many sync batches
Record(name, arg, out, batches) ==
    [name |-> name, arg |-> arg, result |-> out.result, builder |-> out.builder,
     outputs |-> out.outputs, batches |-> batches, before |-> checkpoints]

\* Pay, PayPaymentUri, Contact Save and Sweep: the tip, the checkpoint below
\* the confirmed tip, the tree state there, then the builder; Sweep hands
\* prepare_sweep the tip (cli.rs 477), the others the checkpoint.  up: the
\* server answers.
TxCommand(name, arg, recipients, up) ==
    LET cp_height == SnapToCheckpoint(checkpoints, bc_height - config.confirmations + 1)
        trees == GetTreeState(cp_height[1])
        out == IF ~up THEN Failed("ChainUnavailable")
               ELSE IF cp_height = None THEN Failed("NoCheckpoint")
               ELSE MakePayment(IF name = "Sweep" THEN bc_height ELSE cp_height[1],
                                recipients, trees.sapling, trees.orchard)
    IN  /\ cmd' = Record(name, arg, out, 0)
        /\ UNCHANGED <<bc_height, checkpoints, config>>
        /\ UNCHANGED syncVars
        /\ UNCHANGED feeVars
        /\ UNCHANGED transVars
        /\ UNCHANGED bridgeVars
        /\ UNCHANGED loopVars

PaymentItems == [address : Addresses, amount : 1..MaxAmount]

\* Command::Pay
CmdPay ==
    \E p \in PaymentItems, up \in BOOLEAN : TxCommand("Pay", p, <<p>>, up)

\* Command::PayPaymentUri, the URI parsed
CmdPayPaymentUri ==
    \E n \in 1..MaxRecipients : \E recipients \in [1..n -> PaymentItems], up \in BOOLEAN :
        TxCommand("PayPaymentUri", recipients, recipients, up)

\* ContactCommand::Save: the contacts go into a memo the account sends itself
CmdContactSave ==
    \E up \in BOOLEAN :
        TxCommand("ContactSave", None, <<[address |-> <<"u1", {"S", "O"}>>, amount |-> 0]>>, up)

\* Command::Sweep: the UTXOs found are paid to destination_address
CmdSweep ==
    \E p \in PaymentItems, up \in BOOLEAN : TxCommand("Sweep", p, <<p>>, up)

\* variant in which every recipient gets split_amount
RECURSIVE SplitRecipientsWhole(_, _, _)
SplitRecipientsWhole(to_address, amount, split_amount) ==
    IF amount = 0 THEN <<>>
    ELSE <<[address |-> to_address, amount |-> split_amount]>>
         \o SplitRecipientsWhole(to_address, amount - Min(amount, split_amount), split_amount)

\* the recipients loop of transfer_pools
RECURSIVE SplitRecipients(_, _, _)
SplitRecipients(to_address, amount, split_amount) ==
    IF amount = 0 THEN <<>>
    ELSE <<[address |-> to_address, amount |-> Min(amount, split_amount)]>>
         \o SplitRecipients(to_address, amount - Min(amount, split_amount), split_amount)

\* transfer_pools, called with the tip, CONFIG.confirmations and the tree
\* state of the checkpoint below the confirmed tip
TransferPools ==
    \E to_pool \in 0..2, amount \in 0..MaxTransfer, split \in 0..MaxTransfer :
        LET fetched == SnapToCheckpoint(checkpoints, bc_height - config.confirmations + 1)
            trees == GetTreeState(fetched[1])
            to_address == CASE to_pool = 0 -> <<"t1", {}>>
                            [] to_pool = 1 -> <<"zs", {}>>
                            [] to_pool = 2 -> <<"u1", {"O"}>>
            split_amount == IF split = 0 THEN amount ELSE split
            recipients == SplitRecipients(to_address, amount, split_amount)
            confirmation_height ==
                SnapToCheckpoint(checkpoints, bc_height - config.confirmations + 1)
            out == IF confirmation_height = None THEN Failed("NoCheckpoint")
                   ELSE MakePayment(confirmation_height[1], recipients,
                                    trees.sapling, trees.orchard)
        IN  /\ fetched # None
            /\ cmd' = Record("TransferPools", <<to_pool, amount, split>>, out, 0)
            /\ UNCHANGED <<bc_height, checkpoints, config>>
            /\ UNCHANGED syncVars
            /\ UNCHANGED feeVars
            /\ UNCHANGED transVars
            /\ UNCHANGED bridgeVars
            /\ UNCHANGED loopVars

\* the loop of Command::Sync from the store cps on, n batches done: the
\* outcomes [checkpoints, result, batches].  Every iteration connects anew;
\* a batch that fails leaves the store as it was.
RECURSIVE SyncLoop(_, _, _)
SyncLoop(cps, arg, n) ==
    LET confirmations == IF arg = None THEN 1 ELSE arg[1]
        end_height == bc_height - confirmations + 1
        start_height == GetSyncHeight(cps)
        batch_end == Min(start_height[1] + SyncBatch, end_height)
        End(r) == {[checkpoints |-> cps, result |-> r, batches |-> n]}
    IN  End("ChainUnavailable")
        \cup (IF confirmations = 0 THEN End("UsageError")
              ELSE IF start_height = None THEN End("NoSyncData")
              ELSE IF start_height[1] >= end_height THEN End("ok")
              ELSE End("SyncFailed") \cup SyncLoop(cps \cup {batch_end}, arg, n + 1))

\* Command::Sync
CmdSync ==
    \E arg \in {None} \cup {Some(c) : c \in 0..MaxConfirmations} :
        \E out \in SyncLoop(checkpoints, arg, 0) :
            /\ checkpoints' = out.checkpoints
            /\ cmd' = Record("Sync", arg, Failed(out.result), out.batches)
            /\ UNCHANGED <<bc_height, config>>
            /\ UNCHANGED syncVars
            /\ UNCHANGED feeVars
            /\ UNCHANGED transVars
            /\ UNCHANGED bridgeVars
            /\ UNCHANGED loopVars

\* Command::Reset: truncate_scan runs on the plain connection, then the
\* block at height is fetched (up: the server answers) and stored in a
\* transaction of its own (stored: store_block succeeds)
CmdReset ==
    \E h \in 0..bc_height, up \in BOOLEAN, stored \in BOOLEAN :
        LET height == Max(h, ActivationHeight + 1)
            truncated == {}
            error == IF ~up THEN "ChainUnavailable"
                     ELSE IF ~stored THEN "StoreError" ELSE "ok"
        IN  /\ checkpoints' = IF error = "ok" THEN truncated \cup {height} ELSE truncated
            /\ cmd' = Record("Reset", h, Failed(error), 0)
            /\ UNCHANGED <<bc_height, config>>
            /\ UNCHANGED syncVars
            /\ UNCHANGED feeVars
            /\ UNCHANGED transVars
            /\ UNCHANGED bridgeVars
            /\ UNCHANGED loopVars

\* the chain grows by one block
NewBlock ==
    /\ bc_height < MaxConfirmations + MaxNewBlocks
    /\ bc_height' = bc_height + 1
    /\ UNCHANGED <<checkpoints, config, cmd>>
    /\ UNCHANGED syncVars
    /\ UNCHANGED feeVars
    /\ UNCHANGED transVars
    /\ UNCHANGED bridgeVars
    /\ UNCHANGED loopVars

\* the wallet before the first command, with a chain longer than the
\* confirmations asked for and one confirmation configured
CliInit ==
    /\ bc_height = MaxConfirmations
    /\ checkpoints = {}
    /\ config = [confirmations |-> 1]
    /\ cmd = [name |-> "none", arg |-> None, result |-> "none", builder |-> None,
              outputs |-> <<>>, batches |-> 0, before |-> {}]

\* the same with any App.toml
CliConfigured ==
    /\ bc_height = MaxConfirmations
    /\ checkpoints = {}
    /\ config \in [confirmations : 0..MaxConfirmations]
    /\ cmd = [name |-> "none", arg |-> None, result |-> "none", builder |-> None,
              outputs |-> <<>>, batches |-> 0, before |-> {}]

Pools == 0..2

FeeAddInput == \E pool \in Pools : AddInput(pool)

FeeAddOutput == \E pool \in Pools : AddOutput(pool)

\* offsets of a bridge in its level vector: up to MaxNear from its start
\* and from the first multiple of 2^16
MaxNear == 3

BridgeOffsets == (0..MaxNear) \cup ((PairWrap - MaxNear)..(PairWrap + MaxNear))

\* no pass of the bridge loop is singled out
BridgeInit ==
    bridge_call = [pc |-> "idle"]

\* a pass of the bridge loop body about to run at some depth: the level
\* starts at the even `position`, the bridge covers s..e of the level and
\* the vector reaches to the end of the pair of e
BridgePending ==
    bridge_call \in
        {[pc |-> "pending", position |-> lvl, depth |-> depth,
          be |-> [b |-> [len |-> blen, levels |-> levels],
                  s |-> lvl + off, e |-> lvl + off + blen - 1],
          len |-> off + blen + 1] :
            lvl \in {0, 2}, depth \in 0..1, off \in BridgeOffsets, blen \in 1..2,
            levels \in {<<>>} \cup
                {<<[head |-> h, tail |-> t]>> :
                    h \in {None, Left(<<1>>), Right(<<1>>)},
                    t \in {None, Left(<<2>>), Right(<<2>>)}}}

\* lines 223-259 for the bridge of bridge_call on a vector of placeholders:
\* the slots written and the pointers afterwards
BridgeWrite ==
    /\ bridge_call.pc = "pending"
    /\ \E out \in {BridgeStep([i \in 1..bridge_call.len |-> None], bridge_call.be,
                                bridge_call.position, bridge_call.depth, FALSE)} :
      \E cmxs \in {SubSeq(out.cmxs, 1, Len(out.cmxs))} :
        bridge_call' =
            [pc |-> IF out.panic THEN "panicked" ELSE "done",
             position |-> bridge_call.position, depth |-> bridge_call.depth,
             be |-> bridge_call.be, len |-> bridge_call.len,
             after |-> out.be,
             writes |-> {<<i, At(cmxs, i)>> :
                            i \in {j \in 0..(bridge_call.len - 1) : At(cmxs, j) # None}}]
    /\ UNCHANGED syncVars
    /\ UNCHANGED feeVars
    /\ UNCHANGED transVars
    /\ UNCHANGED cliVars
    /\ UNCHANGED loopVars

(***************************************************************************)
(* The loop of Command::Sync, one iteration per step.  Heights are u32:    *)
(* bc_height - confirmations + 1 below zero aborts a build with overflow   *)
(* checks and wraps to 2^32 minus the deficit in a build without, which is *)
(* above every height the model reaches.                                   *)
(***************************************************************************)
\* batches between the stored sync height and the tip
MaxSyncBatches == 2
\* the confirmations argument of Sync ranges over 0..MaxSyncConfirmations
MaxSyncConfirmations == 3
\* warp_sync calls of one Sync command
MaxSyncCalls == 4

SyncTips == (1..3) \cup {k * SyncBatch + d : k \in 1..MaxSyncBatches, d \in 1..2}

\* no Sync command has run
LoopInit ==
    sync_loop = [pc |-> "idle", arg |-> None, checks |-> FALSE, first |-> None,
                 calls |-> <<>>, result |-> "none"]

\* Command::Sync is entered, once
SyncStart ==
    /\ sync_loop.pc = "idle"
    /\ \E arg \in {None} \cup {Some(c) : c \in 0..MaxSyncConfirmations}, checks \in BOOLEAN :
        sync_loop' = [pc |-> "loop", arg |-> arg, checks |-> checks,
                      first |-> GetSyncHeight(checkpoints),
                      calls |-> <<>>, result |-> "none"]
    /\ UNCHANGED cliVars
    /\ UNCHANGED syncVars
    /\ UNCHANGED feeVars
    /\ UNCHANGED transVars
    /\ UNCHANGED bridgeVars

\* variant in which every batch is a whole batch
SyncBodyWholeBatch(cps, tip, arg, up, checks, outcome) ==
    LET confirmations == IF arg = None THEN 1 ELSE arg[1]
        raw == tip - confirmations + 1
        underflow == raw < 0
        start_height == GetSyncHeight(cps)
        end_height == start_height[1] + SyncBatch
        Exit(r) == [exit |-> TRUE, result |-> r, call |-> None, checkpoints |-> cps]
        issued == Some([start |-> start_height[1], end |-> end_height,
                      tip |-> tip, confirmations |-> confirmations])
    IN  IF ~up THEN Exit("ChainUnavailable")
        ELSE IF confirmations = 0 THEN Exit("UsageError")
        ELSE IF underflow /\ checks THEN Exit("panic")
        ELSE IF start_height = None THEN Exit("NoSyncData")
        ELSE IF ~underflow /\ start_height[1] >= raw THEN Exit("ok")
        ELSE IF outcome = "SyncFailed"
             THEN [exit |-> TRUE, result |-> "SyncFailed", call |-> issued, checkpoints |-> cps]
        ELSE [exit |-> outcome # "ok", result |-> outcome, call |-> issued,
              checkpoints |-> cps \cup {end_height}]

\* one pass of the loop body with the server up or not, in a build with
\* overflow checks or without, and with warp_sync and
\* retrieve_tx_details ending as `outcome`: [exit, result, call, checkpoints]
SyncBody(cps, tip, arg, up, checks, outcome) ==
    LET confirmations == IF arg = None THEN 1 ELSE arg[1]
        raw == tip - confirmations + 1
        underflow == raw < 0
        start_height == GetSyncHeight(cps)
        end_height == IF underflow THEN start_height[1] + SyncBatch
                      ELSE Min(start_height[1] + SyncBatch, raw)
        Exit(r) == [exit |-> TRUE, result |-> r, call |-> None, checkpoints |-> cps]
        issued == Some([start |-> start_height[1], end |-> end_height,
                      tip |-> tip, confirmations |-> confirmations])
    IN  IF ~up THEN Exit("ChainUnavailable")
        ELSE IF confirmations = 0 THEN Exit("UsageError")
        ELSE IF underflow /\ checks THEN Exit("panic")
        ELSE IF start_height = None THEN Exit("NoSyncData")
        ELSE IF ~underflow /\ start_height[1] >= raw THEN Exit("ok")
        ELSE IF outcome = "SyncFailed"
             THEN [exit |-> TRUE, result |-> "SyncFailed", call |-> issued, checkpoints |-> cps]
        ELSE [exit |-> outcome # "ok", result |-> outcome, call |-> issued,
              checkpoints |-> cps \cup {end_height}]

\* one iteration of the loop
SyncIterate(ups, outcomes) ==
    /\ sync_loop.pc = "loop"
    /\ \E up \in ups, outcome \in outcomes :
        \E body \in {SyncBody(checkpoints, bc_height, sync_loop.arg, up,
                               sync_loop.checks, outcome)} :
            /\ body.call # None => Len(sync_loop.calls) < MaxSyncCalls
            /\ checkpoints' = body.checkpoints
            /\ sync_loop' = [sync_loop EXCEPT
                    !.pc = IF body.exit THEN "done" ELSE "loop",
                    !.result = body.result,
                    !.calls = IF body.call = None THEN @ ELSE Append(@, body.call[1])]
    /\ UNCHANGED <<bc_height, config, cmd>>
    /\ UNCHANGED syncVars
    /\ UNCHANGED feeVars
    /\ UNCHANGED transVars
    /\ UNCHANGED bridgeVars

\* an iteration in which anything may fail
SyncIteration == SyncIterate(BOOLEAN, {"ok", "SyncFailed", "DetailsFailed"})

\* an iteration in which the server answers and warp_sync and
\* retrieve_tx_details succeed
SyncIterationOk == SyncIterate({TRUE}, {"ok"})

\* the chain grows to a higher tip
ChainGrows ==
    /\ bc_height' \in {t \in SyncTips : t > bc_height}
    /\ UNCHANGED <<checkpoints, config, cmd>>
    /\ UNCHANGED syncVars
    /\ UNCHANGED feeVars
    /\ UNCHANGED transVars
    /\ UNCHANGED bridgeVars
    /\ UNCHANGED loopVars

\* a wallet that is reset to height 1 or 2, or not at all, under some tip
SyncReady ==
    /\ bc_height \in SyncTips
    /\ checkpoints \in {{}} \cup {{h} : h \in 1..2}
    /\ checkpoints \subseteq 1..bc_height
    /\ config = [confirmations |-> 1]
    /\ cmd = [name |-> "none", arg |-> None, result |-> "none", builder |-> None,
              outputs |-> <<>>, batches |-> 0, before |-> {}]

Init == SyncInit /\ FeeInit /\ TransInit /\ CliInit /\ BridgeInit /\ LoopInit

Next == Fetch \/ Add

Spec == Init /\ [][Next]_vars

SpendNext == FetchSpend \/ Add

SpendSpec == Init /\ [][SpendNext]_vars

FaultNext == Fetch \/ FetchFault \/ Add

FaultSpec == Init /\ [][FaultNext]_vars

PadNext == FetchPad \/ FetchPadded \/ Add

PadSpec == Init /\ [][PadNext]_vars

SkipNext == Fetch \/ FetchSkip \/ Add

SkipSpec == Init /\ [][SkipNext]_vars

TransNext == TMine \/ TProcess

TransSpec == Init /\ [][TransNext]_vars

SliceNext == TProcessSlice

SliceSpec == Init /\ [][SliceNext]_vars

FeeNext == FeeAddInput \/ FeeAddOutput

FeeSpecInit == SyncInit /\ FeeStarted /\ TransInit /\ CliInit /\ BridgeInit /\ LoopInit

FeeSpec == FeeSpecInit /\ [][FeeNext]_vars

CliNext ==
    \/ CmdReset \/ CmdSync \/ NewBlock
    \/ CmdPay \/ CmdPayPaymentUri \/ CmdContactSave \/ CmdSweep \/ TransferPools

CliSpecInit == SyncInit /\ FeeInit /\ TransInit /\ CliConfigured /\ BridgeInit /\ LoopInit

CliSpec == CliSpecInit /\ [][CliNext]_vars

BridgeNext == BridgeWrite

BridgeSpecInit == SyncInit /\ FeeInit /\ TransInit /\ CliInit /\ BridgePending /\ LoopInit

BridgeSpec == BridgeSpecInit /\ [][BridgeNext]_vars

SyncStepInit == SyncInit /\ FeeInit /\ TransInit /\ SyncReady /\ BridgeInit /\ LoopInit

SyncStepNext == SyncStart \/ SyncIteration \/ ChainGrows

SyncStepSpec == SyncStepInit /\ [][SyncStepNext]_vars

\* the tip stands still and every call succeeds; an iteration that can run
\* does run, since the loop body only waits for the calls it makes
SyncLiveNext == SyncStart \/ SyncIterationOk

SyncLiveSpec == SyncStepInit /\ [][SyncLiveNext]_vars /\ WF_vars(SyncIterationOk)

(***************************************************************************)
(* Properties.                                                             *)
(***************************************************************************)
\* add has returned Ok
Returned == pc = "ready" /\ result = "ok"

\* the notes the last add received
FreshIdx == (Len(prev.notes) + 1)..Len(notes)

\* the tree_state of s has slot d set exactly when bit d of position is 1
Consistent(s) ==
    \A d \in 0..(MERKLE_DEPTH - 1) :
        (At(s.tree_state, d) # None) <=> (Shr(s.position, d) % 2 = 1)

NoteRoot(n) == WitnessRoot(n.witness, ToAuthPath(tree_state))

CountOutputs(bs) ==
    SumSeq([t \in 1..Len(FlatTxs(bs)) |-> Len(FlatTxs(bs)[t].tx.outputs)])

CountBridged(bs) ==
    SumSeq([t \in 1..Len(FlatTxs(bs)) |->
        IF FlatTxs(bs)[t].tx.sapling_bridge = None THEN 0
        ELSE FlatTxs(bs)[t].tx.sapling_bridge[1].len])

\* the updates the last add appended to spends
NewUpdates == SubSeq(spends, Len(prev.spends) + 1, Len(spends))

\* a's output comes before b's in (height, tx_index, output_index) order
Precedes(a, b) ==
    \/ a.height < b.height
    \/ a.height = b.height /\ a.ivtx < b.ivtx
    \/ a.height = b.height /\ a.ivtx = b.ivtx /\ a.vout < b.vout

\* C1: after add has returned, the witness of every note in notes has, with
\* the auth path of tree_state, the root of the tree of all leaves up to the
\* last ingested block.
C1_WitnessSoundness ==
    Returned => \A i \in 1..Len(notes) : NoteRoot(notes[i]) = TreeRootAt(chain.leaves)

\* C2: after add has returned Ok, start has grown by the number of blocks
\* and position by the output commitments plus the bridge lengths of the
\* batch.
C2_Advance ==
    Returned =>
        /\ start = prev.start + Len(blocks)
        /\ position = prev.position + CountOutputs(blocks) + CountBridged(blocks)

C2_Witness ==
    /\ Returned
    /\ Len(blocks) = 2
    /\ CountOutputs(blocks) >= 1
    /\ CountBridged(blocks) >= 2
    /\ start = 2
    /\ position = CountOutputs(blocks) + CountBridged(blocks)

\* C3: add of zero blocks, from a state whose tree_state is consistent with
\* position, returns Ok and leaves start, position, tree_state and notes
\* (witnesses included) as they were.
C3_EmptyBatch ==
    (pc # "running" /\ result # "none" /\ blocks = <<>> /\ Consistent(prev)) =>
        /\ result = "ok"
        /\ start = prev.start
        /\ position = prev.position
        /\ tree_state = prev.tree_state
        /\ notes = prev.notes

C3_Witness ==
    /\ Returned
    /\ blocks = <<>>
    /\ Len(notes) >= 1
    /\ position % 2 = 1
    /\ \E i \in 1..Len(notes) : \E d \in 1..MERKLE_DEPTH : notes[i].witness.ommers[d] # None

\* C4: every spend description of the batch whose nullifier is that of a
\* held note sets the note's spent to the height of its block and appends
\* exactly one update with the note's account, minus its value, that height
\* and the nullifier; a spend description that matches no held note changes
\* no note and appends nothing.
C4_SpendDetection ==
    Returned =>
        LET sps == BatchSpends(blocks)
            matched == {k \in 1..Len(sps) : \E i \in 1..Len(notes) : notes[i].nf = sps[k].nf}
        IN  /\ SubSeq(spends, 1, Len(prev.spends)) = prev.spends
            /\ Len(NewUpdates) = Cardinality(matched)
            /\ \A k \in matched : \A i \in 1..Len(notes) :
                notes[i].nf = sps[k].nf =>
                    /\ notes[i].spent = Some(sps[k].height)
                    /\ Cardinality({u \in 1..Len(NewUpdates) :
                            NewUpdates[u].id_spent = Some(sps[k].nf)}) = 1
                    /\ \A u \in 1..Len(NewUpdates) :
                        NewUpdates[u].id_spent = Some(sps[k].nf) =>
                            /\ NewUpdates[u].account = notes[i].account
                            /\ NewUpdates[u].value = -(notes[i].value)
                            /\ NewUpdates[u].height = sps[k].height
            /\ \A i \in 1..Len(notes) :
                (\A k \in 1..Len(sps) : sps[k].nf # notes[i].nf) =>
                    notes[i].spent =
                        IF i <= Len(prev.notes) THEN prev.notes[i].spent ELSE None

C4_Witness ==
    /\ Returned
    /\ \E k \in 1..Len(BatchSpends(blocks)) : \E i \in 1..Len(prev.notes) :
        /\ notes[i].nf = BatchSpends(blocks)[k].nf
        /\ notes[i].account = 2
        /\ notes[i].spent = Some(BatchSpends(blocks)[k].height)
        /\ Len(NewUpdates) = 1

\* C5: a note received in a block of the batch and spent in the same or a
\* later block of the same batch ends with spent = Some(height of the
\* spending block) and an update of minus its value.
C5_SelfSpend ==
    Returned =>
        \A i \in FreshIdx : \A k \in 1..Len(BatchSpends(blocks)) :
            BatchSpends(blocks)[k].nf = Nf(notes[i].account, notes[i].position) =>
                /\ notes[i].spent = Some(BatchSpends(blocks)[k].height)
                /\ \E u \in 1..Len(NewUpdates) :
                    /\ NewUpdates[u].value = -(notes[i].value)
                    /\ NewUpdates[u].id_spent = Some(notes[i].nf)

C5_Witness ==
    /\ Returned
    /\ \E i \in FreshIdx :
        /\ notes[i].height = prev.start + 1
        /\ notes[i].spent = Some(prev.start + 2)
        /\ \E u \in 1..Len(NewUpdates) : NewUpdates[u].value = -(notes[i].value)

\* C6: the positions of the notes strictly increase in (height, tx_index,
\* output_index) order, across bridges and across batches.
C6_PositionMonotone ==
    pc = "ready" =>
        \A i, j \in 1..Len(notes) :
            Precedes(notes[i], notes[j]) => notes[i].position < notes[j].position

C6_Witness ==
    /\ Returned
    /\ \E i, j \in 1..Len(notes) :
        /\ notes[i].height = notes[j].height
        /\ notes[i].ivtx < notes[j].ivtx
        /\ notes[j].position > notes[i].position + 1
    /\ \E i, j \in 1..Len(notes) : notes[i].height < notes[j].height

\* C7: in every counter state fee() = 5000 * (t + s + o) with t the larger
\* transparent count, s the larger Sapling count with the outputs padded
\* to 2 only when there is a Sapling input, o the larger Orchard count
\* padded to 2 when either is positive; 1 Orchard input alone gives 10000,
\* 1 Sapling input with 1 transparent and 1 Sapling output gives 15000.
C7_FeeFormula ==
    LET ni == num_inputs
        no == num_outputs
        t == Max(ni[1], no[1])
        s == IF ni[2] > 0 THEN Max(ni[2], Max(no[2], 2)) ELSE Max(ni[2], no[2])
        o == IF ni[3] > 0 \/ no[3] > 0 THEN Max(Max(ni[3], no[3]), 2) ELSE 0
    IN  /\ Fee(ni, no) = 5000 * (t + s + o)
        /\ (ni = <<0, 0, 1>> /\ no = <<0, 0, 0>>) => Fee(ni, no) = 10000
        /\ (ni = <<0, 1, 0>> /\ no = <<1, 1, 0>>) => Fee(ni, no) = 15000

\* C8: no add_input or add_output makes fee() smaller, so that the
\* subtraction inside the call never underflows.
C8_FeeMonotone ==
    [][/\ Fee(num_inputs', num_outputs') >= Fee(num_inputs, num_outputs)
       /\ ~call'.borrow]_vars

\* C9: add_input(pool) and add_output(pool) add one to their own counter
\* of that pool, leave the other five counters alone and return fee() after
\* the call minus fee() before it.
C9_AddCounts ==
    [][/\ call'.outcome = "returned" /\ ~call'.borrow
       /\ call'.op = "add_input" =>
            /\ num_inputs' = [num_inputs EXCEPT ![call'.pool + 1] = @ + 1]
            /\ num_outputs' = num_outputs
            /\ ret' = Fee(num_inputs', num_outputs') - Fee(num_inputs, num_outputs)
       /\ call'.op = "add_output" =>
            /\ num_outputs' = [num_outputs EXCEPT ![call'.pool + 1] = @ + 1]
            /\ num_inputs' = num_inputs
            /\ ret' = Fee(num_inputs', num_outputs') - Fee(num_inputs, num_outputs)
      ]_vars

\* C10: when a note's witness root differs from the root of the tree at the
\* batch's final height, add does not return Ok.
C10_RootMismatchFatal ==
    (pc # "running" /\ result # "none"
        /\ \E i \in 1..Len(notes) : NoteRoot(notes[i]) # TreeRootAt(chain.leaves))
    => result # "ok"

\* C11: add either applies the whole batch or, when it fails at any point
\* (a failure at some depth of the witness loop included), leaves start,
\* position, tree_state, notes and spends as they were.
C11_Atomic ==
    result = "panic" =>
        /\ start = prev.start
        /\ position = prev.position
        /\ tree_state = prev.tree_state
        /\ notes = prev.notes
        /\ spends = prev.spends

\* C12: once add has set a held note's spent to Some, no later add resets
\* it to None.
C12_SpentMonotone ==
    \A i \in 1..Len(prev.notes) :
        prev.notes[i].spent # None => i <= Len(notes) /\ notes[i].spent # None

C12_Witness ==
    /\ Returned
    /\ prev.start >= 1
    /\ \E i \in 1..Len(prev.notes) :
        /\ prev.notes[i].spent # None
        /\ notes[i].spent = prev.notes[i].spent

\* C13: add never removes a note and never changes a held note's account,
\* value, position, nullifier, txid or witness value; of a held note it
\* changes only spent and witness ommers, and only ommers that were None.
C13_NoteFrame ==
    /\ Len(notes) >= Len(prev.notes)
    /\ \A i \in 1..Len(prev.notes) :
        /\ notes[i].account = prev.notes[i].account
        /\ notes[i].value = prev.notes[i].value
        /\ notes[i].position = prev.notes[i].position
        /\ notes[i].nf = prev.notes[i].nf
        /\ notes[i].txid = prev.notes[i].txid
        /\ notes[i].height = prev.notes[i].height
        /\ notes[i].witness.value = prev.notes[i].witness.value
        /\ notes[i].witness.position = prev.notes[i].witness.position
        /\ \A d \in 1..MERKLE_DEPTH :
            prev.notes[i].witness.ommers[d] # None =>
                notes[i].witness.ommers[d] = prev.notes[i].witness.ommers[d]

C13_Witness ==
    /\ Returned
    /\ blocks # <<>>
    /\ \E i \in 1..Len(prev.notes) :
        /\ \E d \in 1..MERKLE_DEPTH :
            prev.notes[i].witness.ommers[d] = None /\ notes[i].witness.ommers[d] # None
        /\ \E d \in 1..MERKLE_DEPTH :
            prev.notes[i].witness.ommers[d] # None /\ notes[i].witness.ommers[d] # None

\* C14: no two unspent notes of the same account in notes share a
\* nullifier: each (account, position) pair occurs at most once.
C14_NullifierUnique ==
    \A i, j \in 1..Len(notes) :
        (i # j /\ notes[i].account = notes[j].account
            /\ notes[i].spent = None /\ notes[j].spent = None) =>
        /\ notes[i].nf # notes[j].nf
        /\ notes[i].position # notes[j].position

C14_Witness ==
    /\ Returned
    /\ \E i, j \in 1..Len(notes) :
        /\ i # j
        /\ notes[i].account = notes[j].account
        /\ notes[i].spent = None /\ notes[j].spent = None
    /\ \E i \in 1..Len(notes) : notes[i].spent # None

\* the transactions handed to the last process_txs call
TBatch == tcall.batch

\* outpoints and values of the UTXOs held when the k-th transaction of the
\* batch is processed: those held before the call and the outputs of the
\* transactions before it
HeldAt(k) ==
    {[txid |-> tcall.prev.utxos[i].txid, vout |-> tcall.prev.utxos[i].vout,
      value |-> tcall.prev.utxos[i].value] : i \in 1..Len(tcall.prev.utxos)}
    \cup UNION {{[txid |-> TBatch[j].txid, vout |-> TBatch[j].vouts[m].vout,
                  value |-> TBatch[j].vouts[m].value] : m \in 1..Len(TBatch[j].vouts)} :
                j \in 1..(k - 1)}

\* the inputs of the batch in processing order: [k, vin]
BatchInputs ==
    Flatten([k \in 1..Len(TBatch) |->
        [m \in 1..Len(TBatch[k].vins) |-> [k |-> k, vin |-> TBatch[k].vins[m]]]])

IsHeld(inp) ==
    \E u \in HeldAt(inp.k) : u.txid = inp.vin.txid /\ u.vout = inp.vin.vout

HeldInputs == SelectSeq(BatchInputs, IsHeld)

NewTUpdates == SubSeq(tx_updates, Len(tcall.prev.tx_updates) + 1, Len(tx_updates))

\* the outputs of the batch in processing order: [k, out]
BatchOutputs ==
    Flatten([k \in 1..Len(TBatch) |->
        [m \in 1..Len(TBatch[k].vouts) |-> [k |-> k, out |-> TBatch[k].vouts[m]]]])

\* C15: process_txs appends, for every input whose previous outpoint is a
\* held UTXO, exactly one update with minus the UTXO's value, the txid and
\* height of the spending transaction and id_spent = that outpoint; other
\* inputs append nothing.
C15_SpendUpdates ==
    tcall.result = "ok" =>
        /\ SubSeq(tx_updates, 1, Len(tcall.prev.tx_updates)) = tcall.prev.tx_updates
        /\ Len(NewTUpdates) = Len(HeldInputs)
        /\ \A n \in 1..Len(HeldInputs) :
            LET inp == HeldInputs[n]
                u == CHOOSE u \in HeldAt(inp.k) :
                        u.txid = inp.vin.txid /\ u.vout = inp.vin.vout
            IN  /\ NewTUpdates[n].value = -(u.value)
                /\ NewTUpdates[n].txid = TBatch[inp.k].txid
                /\ NewTUpdates[n].height = TBatch[inp.k].height
                /\ NewTUpdates[n].id_spent = Some(OutPoint(inp.vin.txid, inp.vin.vout))

C15_Witness ==
    /\ tcall.result = "ok"
    /\ Len(HeldInputs) >= 1
    /\ Len(BatchInputs) > Len(HeldInputs)
    /\ Len(NewTUpdates) = 1

\* C16: an input that consumes a held UTXO marks it spent: the UTXO is no
\* longer held in utxos, and no later input with the same outpoint appends
\* a second update.
C16_MarkedSpent ==
    \A n \in 1..Len(tx_updates) :
        /\ \A i \in 1..Len(utxos) :
            Some(OutPoint(utxos[i].txid, utxos[i].vout)) # tx_updates[n].id_spent
        /\ \A m \in 1..Len(tx_updates) :
            m # n => tx_updates[m].id_spent # tx_updates[n].id_spent

\* C17: for every output in vouts of every processed transaction exactly
\* one UTXO with is_new, the transaction's account, height and txid, the
\* output's vout and value is appended to utxos, and one received record
\* with the outpoint and the value to txs; no other UTXO is added.
C17_NewUtxos ==
    tcall.result = "ok" =>
        /\ SubSeq(utxos, 1, Len(tcall.prev.utxos)) = tcall.prev.utxos
        /\ SubSeq(rtxs, 1, Len(tcall.prev.txs)) = tcall.prev.txs
        /\ Len(utxos) = Len(tcall.prev.utxos) + Len(BatchOutputs)
        /\ Len(rtxs) = Len(tcall.prev.txs) + Len(BatchOutputs)
        /\ \A n \in 1..Len(BatchOutputs) :
            LET tx == TBatch[BatchOutputs[n].k]
                o == BatchOutputs[n].out
                u == utxos[Len(tcall.prev.utxos) + n]
                r == rtxs[Len(tcall.prev.txs) + n]
            IN  /\ u.is_new
                /\ u.account = tx.account /\ u.height = tx.height /\ u.txid = tx.txid
                /\ u.vout = o.vout /\ u.value = o.value
                /\ r[2] = OutPoint(tx.txid, o.vout)
                /\ r[3] = o.value
                /\ r[1].account = tx.account /\ r[1].txid = tx.txid

C17_Witness ==
    /\ tcall.result = "ok"
    /\ Len(tcall.prev.utxos) >= 1
    /\ Len(BatchOutputs) >= 2
    /\ \E n \in 1..Len(BatchOutputs) : BatchOutputs[n].out.vout = 1
    /\ \E i \in 1..Len(utxos) : utxos[i].vout = 1 /\ utxos[i].account = 2

\* the pools an address string names, and a set of pools as a PoolMask
\* (b0 = T, b1 = S, b2 = O)
ReceiverPools(address) ==
    CASE address[1] = "t1" -> {"T"}
      [] address[1] = "zs" -> {"S"}
      [] address[1] = "u1" -> address[2]
      [] OTHER -> {}

PoolMaskOf(pools) ==
    (IF "T" \in pools THEN 1 ELSE 0) + (IF "S" \in pools THEN 2 ELSE 0)
    + (IF "O" \in pools THEN 4 ELSE 0)

\* C18: every recipient a command expands carries the PoolMask of the
\* pools its address names ({T} for a transparent address, {S} for a
\* Sapling address, all receivers of a unified address), and a payment to
\* an address that does not decode ends in an error.
C18_PoolBitset ==
    /\ \A i \in 1..Len(cmd.outputs) :
        cmd.outputs[i].pool = PoolMaskOf(ReceiverPools(cmd.outputs[i].payment.address))
    /\ (cmd.name \in {"Pay", "Sweep"} /\ cmd.arg.address[1] = "??") => cmd.result # "ok"

\* C19: the builder of every transaction-producing command holds the
\* Sapling and the Orchard frontier taken at the height it is handed.
C19_AnchorChoice ==
    cmd.builder # None =>
        /\ cmd.builder[1].s_edge = [pool |-> "sapling", height |-> cmd.builder[1].height]
        /\ cmd.builder[1].o_edge = [pool |-> "orchard", height |-> cmd.builder[1].height]

\* C20: Sync with confirmations = 0 ends in the usage error, after no
\* sync batch and with the store as it was.
C20_SyncZero ==
    (cmd.name = "Sync" /\ cmd.arg = Some(0)) =>
        /\ cmd.result = "UsageError"
        /\ cmd.batches = 0
        /\ checkpoints = cmd.before

\* C21: a Reset that fails leaves the stored scan state and sync height
\* as they were; its changes are committed only when it succeeds.
C21_ResetAtomic ==
    (cmd.name = "Reset" /\ cmd.result # "ok") => checkpoints = cmd.before

\* leaves of the batch's transactions that come before transaction ivtx of
\* the block at height h
LeavesBefore(bs, h, ivtx) ==
    SumSeq([t \in 1..Len(FlatTxs(bs)) |->
        IF \/ FlatTxs(bs)[t].height < h
           \/ FlatTxs(bs)[t].height = h /\ FlatTxs(bs)[t].ivtx < ivtx
        THEN TxLeaves(FlatTxs(bs)[t].tx) ELSE 0])

\* the last batch was the bridge-skip scenario, ingested from position 0
SkipIngested ==
    /\ Returned
    /\ prev.position = 0
    /\ \E upper \in {<<>>, HonestLevels(1, 1, 1)}, oneBlock \in BOOLEAN :
        blocks = SkipBlocks(upper, oneBlock)

\* C22: a note decrypted from output vout of transaction ivtx of the block
\* at height h gets the position before the batch, plus the outputs and
\* bridge lengths of all transactions of earlier blocks and of the earlier
\* transactions of its block, plus vout; the bridge leaves of a transaction
\* follow its outputs.  In [1 output; bridge of len 3; 1 output] from
\* position 0 the second note gets position 4.
C22_PositionAssignment ==
    Returned =>
        /\ \A i \in FreshIdx :
            notes[i].position =
                prev.position + LeavesBefore(blocks, notes[i].height, notes[i].ivtx)
                + notes[i].vout
        /\ SkipIngested =>
            \E i, j \in FreshIdx :
                /\ Precedes(notes[i], notes[j])
                /\ notes[i].position = 0 /\ notes[j].position = 4

C22_Witness ==
    /\ Returned
    /\ Len(blocks) = 2
    /\ Len(blocks[1].vtx) >= 1
    /\ Len(blocks[2].vtx) = 2
    /\ BridgeLen(blocks[1].vtx[1]) >= 1
    /\ TxLeaves(blocks[2].vtx[1]) >= 1
    /\ \E i \in FreshIdx :
        /\ notes[i].height = prev.start + 2
        /\ notes[i].ivtx = 1
        /\ notes[i].position >= prev.position + 2

\* C23: after any sequence of add calls from the empty tree, tree_state[d]
\* is set exactly when bit d of position is 1, and it is then the last
\* complete node of level d of the tree (the last node of the level vector).
C23_Frontier ==
    pc = "ready" =>
        \A d \in 0..(MERKLE_DEPTH - 1) :
            At(tree_state, d) =
                IF Shr(position, d) % 2 = 1
                THEN TrueNode(d, Shr(position, d) - 1) ELSE None

C23_Witness ==
    /\ Returned
    /\ prev.position % 2 = 1
    /\ position = 3
    /\ CountBridged(blocks) >= 1
    /\ At(tree_state, 0) # None /\ At(tree_state, 1) # None

\* the level vectors of the last batch, one entry per depth: the vector as
\* the received notes read it (before), as the bridges leave it (after),
\* and the position of its first node (start)
RECURSIVE LevelTrace(_, _, _, _)
LevelTrace(self, bs, acc, depth) ==
    IF depth = MERKLE_DEPTH THEN <<>>
    ELSE LET pos0 == Shr(self.position, depth)
             lvl == pos0 - (pos0 % 2)
             c2 == LevelNodes(self, bs, [ts |-> self.tree_state, cmxs |-> acc.cmxs], depth)
         IN  The({
                <<[before |-> c2, after |-> br.cmxs, start |-> lvl]>>
                \o LevelTrace(self, bs,
                        [cmxs |-> ParallelCombineOpt(depth, br.cmxs, Len(br.cmxs) \div 2),
                         bridges |-> br.bridges], depth + 1)
            : br \in {BridgesStep(c2, acc.bridges, lvl, depth, FALSE)}})

BatchTrace ==
    LevelTrace(prev, blocks,
               [cmxs |-> <<>>, bridges |-> BridgeExts(FlatTxs(blocks), prev.position)], 0)

\* nidx ^ 1
Sibling(nidx) == IF nidx % 2 = 0 THEN nidx + 1 ELSE nidx - 1

\* note i has at depth d the ommer the rule gives it from the vector cmxs
OmmerFrom(i, d, cmxs, lvl) ==
    LET nidx == Shr(notes[i].position, d) - lvl
    IN  nidx >= 0 =>
            At(notes[i].witness.ommers, d) =
                IF Sibling(nidx) < Len(cmxs) THEN At(cmxs, Sibling(nidx)) ELSE None

\* C24: after add every note, held or received, has at every depth d the
\* ommer cmxs[nidx ^ 1] of the batch's level-d vector when that index lies
\* inside the vector and None when it lies beyond its end, nidx being
\* (position >> d) - level_start; a received note has the value cmxs[nidx]
\* of level 0.  The vector is taken as the code has it when it handles the
\* note: before the bridges' siblings are written for a received note,
\* after for a held one.
C24_OmmerRule ==
    Returned =>
        /\ \A i \in 1..Len(notes), d \in 0..(MERKLE_DEPTH - 1) :
            OmmerFrom(i, d,
                      IF i \in FreshIdx THEN BatchTrace[d + 1].before
                      ELSE BatchTrace[d + 1].after,
                      BatchTrace[d + 1].start)
        /\ \A i \in FreshIdx :
            notes[i].witness.value =
                At(BatchTrace[1].before, notes[i].position - BatchTrace[1].start)

\* C25 (as stated): in the bridge-skip scenario [output A; bridge of len 3
\* with levels[0] = {head: Right(H0), tail: Left(H1)}; output B], ingested
\* from position 0, the second note (B) ends with witness.ommers[0] =
\* Some(H1).
C25_BridgeSkipStated ==
    SkipIngested =>
        \A j \in FreshIdx :
            notes[j].position = 4 => At(notes[j].witness.ommers, 0) = Cmu(2)

\* C25 (amended): in that scenario B is the fifth leaf, a left node without
\* a right sibling: it ends with position 4 and witness.ommers[0] = None;
\* H1 is written to slot 2 of the level-0 vector, the sibling of the hidden
\* leaf 3; tree_state[0] is B's commitment and position is 5.
C25_BridgeSkip ==
    SkipIngested =>
        /\ \E j \in FreshIdx :
            /\ notes[j].position = 4
            /\ notes[j].witness.value = Cmu(4)
            /\ At(notes[j].witness.ommers, 0) = None
        /\ At(BatchTrace[1].after, 2) = Cmu(2)
        /\ At(tree_state, 0) = Cmu(4)
        /\ position = 5

C25_Witness ==
    /\ SkipIngested
    /\ Len(blocks) = 3
    /\ Len(notes) = 2

\* the even number at or below x
EvenBelow(x) == x - (x % 2)

\* the slot a tagged sibling belongs to, in the pair at index pair
SideWrites(pair, side) ==
    IF side = None THEN {}
    ELSE {<<IF side[1].side = "Left" THEN pair ELSE pair + 1, side[1].h>>}

\* C26: a bridge at a depth below levels.len() writes its head sibling into
\* the pair containing s - level_start and its tail sibling into the pair
\* containing e - level_start, the even slot for Left and the odd slot for
\* Right, the pair index being the offset rounded down to an even number
\* for every offset, also from 65536 on; its pointers become s/2 and
\* (e-1)/2.  At a depth from levels.len() on it writes nothing.
C26_BridgeSubstitution ==
    bridge_call.pc # "pending" =>
        /\ bridge_call.pc = "done"
        /\ LET be == bridge_call.be
               lvl == bridge_call.position
           IN  IF bridge_call.depth >= Len(be.b.levels)
               THEN bridge_call.writes = {} /\ bridge_call.after = be
               ELSE LET level == At(be.b.levels, bridge_call.depth)
                        head == SideWrites(EvenBelow(be.s - lvl), level.head)
                        tail == SideWrites(EvenBelow(be.e - lvl), level.tail)
                    IN  /\ bridge_call.writes =
                               {w \in head : \A t \in tail : t[1] # w[1]} \cup tail
                        /\ bridge_call.after.s = HalfTrunc(be.s)
                        /\ bridge_call.after.e = HalfTrunc(be.e - 1)

\* the last batch was one block with one transaction holding a single
\* output an account can decrypt and no bridge, ingested into an empty tree
SingleOutputIngested ==
    /\ Returned
    /\ prev.position = 0
    /\ prev.tree_state = EmptyEdge
    /\ Len(blocks) = 1
    /\ Len(blocks[1].vtx) = 1
    /\ Len(blocks[1].vtx[1].outputs) = 1
    /\ blocks[1].vtx[1].outputs[1].owner \in Accounts
    /\ blocks[1].vtx[1].sapling_bridge = None

\* C27: ingesting a single decryptable output into an empty tree produces
\* exactly one note, at the position before the call, with every ommer None,
\* and tree_state[0] is the output's commitment.
C27_SingleOutput ==
    SingleOutputIngested =>
        /\ Len(notes) = Len(prev.notes) + 1
        /\ notes[Len(notes)].position = prev.position
        /\ notes[Len(notes)].witness.value = blocks[1].vtx[1].outputs[1].cmu
        /\ \A d \in 0..(MERKLE_DEPTH - 1) : At(notes[Len(notes)].witness.ommers, d) = None
        /\ At(tree_state, 0) = blocks[1].vtx[1].outputs[1].cmu
        /\ position = 1

C27_Witness ==
    /\ SingleOutputIngested
    /\ Len(notes) = 1
    /\ notes[1].account = blocks[1].vtx[1].outputs[1].owner

\* what a call leaves behind, the notes as a set
Residue(out) ==
    [notes |-> {out.self.notes[i] : i \in 1..Len(out.self.notes)},
     tree_state |-> out.self.tree_state, position |-> out.self.position,
     start |-> out.self.start, spends |-> out.self.spends, result |-> out.result]

\* C28: every note the trial decryption yields has been received when the
\* witness loop starts, and the notes (with position, nullifier, txid and
\* witness) as a set, tree_state, position and spends that add leaves are
\* the same for every order in which the channel delivers the notes.
C28_OrderIndependent ==
    Returned =>
        /\ Len(notes) = Len(prev.notes) + Len(DecryptAll(blocks))
        /\ {<<notes[i].height, notes[i].ivtx, notes[i].vout>> : i \in FreshIdx}
            = {<<DecryptAll(blocks)[k].height, DecryptAll(blocks)[k].ivtx,
                 DecryptAll(blocks)[k].vout>> : k \in 1..Len(DecryptAll(blocks))}
        /\ \A order \in Perms(Len(DecryptAll(blocks))) :
            {Residue(out) : out \in AddOutcomes(prev, blocks, order)}
            = {Residue(out) : out \in AddOutcomes(prev, blocks,
                                    [i \in 1..Len(DecryptAll(blocks)) |-> i])}
        /\ \E out \in AddOutcomes(prev, blocks, [i \in 1..Len(DecryptAll(blocks)) |-> i]) :
            Residue(out) = [notes |-> {notes[i] : i \in 1..Len(notes)},
                            tree_state |-> tree_state, position |-> position,
                            start |-> start, spends |-> spends, result |-> result]

\* two notes of one batch were delivered against the block order, and the
\* batch spends a note
C28_Witness ==
    /\ Returned
    /\ Len(prev.notes) >= 1
    /\ Len(spends) > Len(prev.spends)
    /\ \E i, j \in FreshIdx : i < j /\ Precedes(notes[j], notes[i])

\* C29: every warp_sync call of the Sync loop covers at most 100 000 blocks
\* and does not reach above tip - confirmations + 1, and no call is issued
\* once the stored sync height has reached that target.
C29_SyncBatching ==
    \A k \in 1..Len(sync_loop.calls) :
        LET c == sync_loop.calls[k]
            target == c.tip - c.confirmations + 1
        IN  /\ c.end - c.start <= SyncBatch
            /\ c.end <= target
            /\ c.start < target

\* the confirmations a Sync command runs with
SyncConfirmations == IF sync_loop.arg = None THEN 1 ELSE sync_loop.arg[1]

\* the subtraction bc_height - confirmations + 1 wraps: a build without
\* overflow checks and more confirmations than tip + 1.  The calls then go
\* on until start + 100000 passes 2^32, where no call can raise the sync
\* height to its end; the model does not follow a run that far.
SyncWraps == ~sync_loop.checks /\ bc_height - SyncConfirmations + 1 < 0

C31_FeeEightBit ==
    /\ ~(overflow_checks /\ FeeOverflows(num_inputs, num_outputs))
    /\ Fee(num_inputs, num_outputs) = 5000 * ActionSum(num_inputs, num_outputs)

\* C32: from FeeManager::default() on, after any sequence of add_input and
\* add_output calls the deltas the calls returned add up to the current
\* fee(): every call returned, no delta is 2^64 too large, and the sum is
\* what fee() returns now.
C32_DeltaAccounting ==
    /\ call.outcome # "panic"
    /\ deltas.borrows = 0
    /\ deltas.sum = Fee(num_inputs, num_outputs)

\* C33: the splitting loop of transfer_pools ends with recipients whose
\* amounts add up to amount; each amount is positive and at most
\* split_amount, all but the last are exactly split_amount, so there are
\* ceil(amount / split_amount) of them; split_amount = 0 stands for amount
\* and gives one recipient; amount = 0 gives none.
C33_AmountSplit ==
    (cmd.name = "TransferPools" /\ cmd.result = "ok") =>
        LET amount == cmd.arg[2]
            split_amount == IF cmd.arg[3] = 0 THEN amount ELSE cmd.arg[3]
            n == Len(cmd.outputs)
        IN  /\ SumSeq([i \in 1..n |-> cmd.outputs[i].payment.amount]) = amount
            /\ \A i \in 1..n : /\ cmd.outputs[i].payment.amount > 0
                                /\ cmd.outputs[i].payment.amount <= split_amount
            /\ \A i \in 1..(n - 1) : cmd.outputs[i].payment.amount = split_amount
            /\ amount > 0 => n = (amount + split_amount - 1) \div split_amount
            /\ (cmd.arg[3] = 0 /\ amount > 0) => n = 1
            /\ amount = 0 => n = 0

\* an amount was split into a whole part and a smaller rest
C33_Witness ==
    /\ cmd.name = "TransferPools"
    /\ cmd.result = "ok"
    /\ Len(cmd.outputs) = 2
    /\ cmd.outputs[2].payment.amount < cmd.outputs[1].payment.amount


\* C34: every update that process_txs appends for a spent UTXO carries the
\* account of that UTXO, also when UTXOs of several accounts are held and
\* the spending transaction was fetched for another account's address.
C34_SpendAttribution ==
    \A n \in 1..Len(tx_updates) :
        \A i \in 1..Len(utxos) :
            Some(OutPoint(utxos[i].txid, utxos[i].vout)) = tx_updates[n].id_spent
                => tx_updates[n].account = utxos[i].account


\* the updates of the last call for input vin of the k-th transaction
SpendUpdatesOf(k, vin) ==
    {n \in 1..Len(NewTUpdates) :
        /\ NewTUpdates[n].txid = TBatch[k].txid
        /\ NewTUpdates[n].id_spent = Some(OutPoint(vin.txid, vin.vout))}

\* C35: a UTXO that an output of transaction i created is found by the
\* inputs of every later transaction, of the same process_txs call or of a
\* later one, and such an input appends an update of minus the UTXO's
\* value; the inputs of a transaction are matched before its own outputs
\* are added, so an input naming an output of its own transaction that is
\* not held yet appends nothing.
C35_ReceiveThenSpend ==
    tcall.result = "ok" =>
        \A k \in 1..Len(TBatch) :
            \A m \in 1..Len(TBatch[k].vins) :
                LET vin == TBatch[k].vins[m]
                    created == {u \in HeldAt(k) : u.txid = vin.txid /\ u.vout = vin.vout}
                IN  /\ created # {} =>
                        \E n \in SpendUpdatesOf(k, vin) :
                            \A u \in created : NewTUpdates[n].value = -(u.value)
                    /\ created = {} => SpendUpdatesOf(k, vin) = {}

\* the last call spent an output of an earlier call and an output of an
\* earlier transaction of the same call
C35_Witness ==
    /\ tcall.result = "ok"
    /\ Len(TBatch) = 2
    /\ Len(TBatch[1].vins) = 1 /\ Len(TBatch[2].vins) = 1
    /\ TBatch[1].vouts # <<>>
    /\ TBatch[2].vins[1] = OutPoint(TBatch[1].txid, 0)
    /\ TBatch[1].vins[1].txid # TBatch[1].txid
    /\ \E i \in 1..Len(tcall.prev.utxos) :
            /\ tcall.prev.utxos[i].txid = TBatch[1].vins[1].txid
            /\ tcall.prev.utxos[i].vout = TBatch[1].vins[1].vout
    /\ Len(NewTUpdates) = 2

\* a transaction of the last call named an output of its own that was not
\* held, and nothing was appended for it
C35_OwnOutput ==
    /\ tcall.result = "ok"
    /\ \E k \in 1..Len(TBatch) :
        /\ TBatch[k].vouts # <<>>
        /\ TBatch[k].vins = <<OutPoint(TBatch[k].txid, 0)>>
        /\ \A u \in HeldAt(k) : u.txid # TBatch[k].txid


\* the bridge loop of every depth that add(bs) on self reaches computes
\* its offsets without going below zero and writes inside the level vector
RECURSIVE BridgeIndexSafe(_, _, _, _)
BridgeIndexSafe(self, bs, acc, depth) ==
    IF depth >= MERKLE_DEPTH \/ acc.panic THEN TRUE
    ELSE LET pos0 == Shr(self.position, depth)
             odd == pos0 % 2 = 1
             lvl == IF odd THEN pos0 - 1 ELSE pos0
         IN  IF odd /\ At(acc.ts, depth) = None THEN TRUE
             ELSE \E c2 \in {LevelNodes(self, bs, acc, depth)} :
                 IF \E i \in 1..Len(acc.fresh) :
                        FreshNotePanics(acc.fresh[i], c2, lvl, depth)
                 THEN TRUE
                 ELSE \E br \in {BridgesStep(c2, acc.bridges, lvl, depth, FALSE)} :
                     /\ ~br.wrapped
                     /\ ~br.panic
                     /\ BridgeIndexSafe(self, bs,
                            DepthStep(self, bs, acc, depth, FALSE), depth + 1)

\* C36: for every bridge of the batch with len >= 1 and every depth below
\* the number of its levels, the offsets be.s - position and
\* be.e - position computed in add are not negative, also after the
\* pointers are halved, and every slot written for a head or a tail lies
\* inside the level vector.
C36_BridgeIndexSafety ==
    pc \in {"ready", "panicked"} =>
        BridgeIndexSafe(prev, blocks, LoopStart(prev, blocks, [i \in 1..Len(DecryptAll(blocks)) |-> i]), 0)

====
